---- MODULE Spec2Model ----
(***************************************************************************)
(* Model of open-model-selector: the useModels retrieval hook              *)
(* (hooks/use-models.ts), the way ModelSelector drives it                  *)
(* (components/model-selector.tsx) and the merge stage of the selector's   *)
(* list derivation.                                                        *)
(*                                                                         *)
(* One React commit (render plus the cleanup and body of the effect whose  *)
(* dependencies changed) is one step.  Every continuation of fetchModels   *)
(* after an await runs to its next await, or to the end of its finally     *)
(* block, in one step.  The injected fetch function is an input: it may    *)
(* resolve or reject at any time, whether or not its signal was aborted.   *)
(***************************************************************************)
EXTENDS Integers, Sequences, FiniteSets, TLC

\* Bound of the model: effect runs that start a request, per mounted hook.
MaxRequests == 2

----------------------------------------------------------------------------
\* Values

\* JavaScript undefined, where a string (a tuple of characters) is expected.
Undefined == <<"undefined">>

UrlHttps == <<"h", "t", "t", "p", "s", ":", "/", "/", "a">>
UrlHttpUpper == <<"H", "T", "T", "P", ":", "/", "/", "b">>
UrlJavascript == <<"j", "a", "v", "a", "s", "c", "r", "i", "p", "t", ":", "x">>
UrlHttpNoSlashes == <<"h", "t", "t", "p", ":", "a">>
UrlEmpty == <<>>

\* The baseUrl values a host passes to the hook.
BaseUrls == {Undefined, UrlEmpty, UrlHttps, UrlHttpUpper, UrlJavascript, UrlHttpNoSlashes}

ApiKeys == {"undefined", "k1"}

\* JSON.stringify(queryParams), the effect's third dependency.
QueryParamsKeys == {"undefined", "{type:all}"}

\* The type option; "undefined" is the option left out.
TypeOptions == {"undefined", "image"}

\* error === null, and the Error objects the hook stores.  An error value is
\* a record: whether it is an Error instance, its name, and its message as
\* the pieces it is concatenated from.
Null == [isError |-> FALSE, name |-> "null", message |-> <<>>]

MkError(name, message) == [isError |-> TRUE, name |-> name, message |-> message]

\* What the fetch function or response.json() may reject with: Error
\* instances, and one value that is not an Error (a thrown string).
TypeErrorFailedToFetch == MkError("TypeError", <<"Failed to fetch">>)
AbortError == MkError("AbortError", <<"Aborted">>)
TimeoutErr == MkError("TimeoutError", <<"The operation timed out">>)
ThrownString == [isError |-> FALSE, name |-> "string", message |-> <<"boom">>]

RejectionValues == {TypeErrorFailedToFetch, AbortError, TimeoutErr, ThrownString}

\* response.status values; response.ok is status in 200..299.
Statuses == {200, 404, 500}

ResponseOk(status) == status >= 200 /\ status <= 299

\* Canonical models as the hook and the selector see them.
\* (Record constructors list their fields in the order TLC sorts them, so
\* that a value shared by two workers is never re-sorted in place.)
Model(id, name, type) == [name |-> name, id |-> id, type |-> type]

\* Raw items of a response body.  kind is the JavaScript kind of the item;
\* out is what the normalizer in use does with a record: "model" (returns
\* the model built from the record's fields), "throw", or "null" (returns
\* null).  A record with id "" normalizes to a model with an empty id.
Raw(kind, out, id, name, type) ==
  [kind |-> kind, name |-> name, id |-> id, type |-> type, out |-> out]

RawGpt == Raw("object", "model", "gpt-4", "GPT-4", "text")
RawDalle == Raw("object", "model", "dall-e-3", "DALL-E 3", "image")
RawThrows == Raw("object", "throw", "bad", "bad", "text")
RawNullOut == Raw("object", "null", "nil", "nil", "text")
RawEmptyId == Raw("object", "model", "", "anon", "text")
RawString == Raw("string", "throw", "", "", "")
RawJsNull == Raw("null", "throw", "", "", "")

\* Parsed response bodies.  kind: "array", "object", "scalar" or "null".
\* For an object, dataIsArray / modelsIsArray say whether body.data /
\* body.models is a list.
Body(kind, items, dataIsArray, data, modelsIsArray, modelsList) ==
  [kind |-> kind, data |-> data, items |-> items, dataIsArray |-> dataIsArray,
   modelsIsArray |-> modelsIsArray, modelsList |-> modelsList]

BodyData == Body("object", <<>>, TRUE, <<RawGpt, RawThrows, RawDalle>>, TRUE, <<RawNullOut>>)
BodyArray == Body("array", <<RawDalle, RawString, RawNullOut, RawGpt>>, FALSE, <<>>, FALSE, <<>>)
BodyModels == Body("object", <<>>, FALSE, <<>>, TRUE, <<RawEmptyId, RawJsNull, RawGpt>>)
BodyNoList == Body("object", <<>>, FALSE, <<>>, FALSE, <<>>)
BodyScalar == Body("scalar", <<>>, FALSE, <<>>, FALSE, <<>>)
BodyNull == Body("null", <<>>, FALSE, <<>>, FALSE, <<>>)

Bodies == {BodyData, BodyArray, BodyModels, BodyNoList, BodyScalar, BodyNull}

\* The models prop of ModelSelector (statically supplied models).
StaticOne == <<Model("gpt-4", "Static GPT-4", "text"), Model("local", "Local", "image")>>

StaticLists == {<<>>, StaticOne}

----------------------------------------------------------------------------
\* State

VARIABLES
  lifecycle,          \* "init" (not mounted yet), "mounted", "unmounted"
  hasAbortSignalAny,  \* typeof AbortSignal.any === 'function' in this runtime
  baseUrl,            \* ModelSelector prop
  models,             \* ModelSelector prop: statically supplied models
  apiKey,             \* prop
  queryParamsKey,     \* JSON.stringify(queryParams)
  type,               \* prop: the type filter
  allModels,          \* useModels state
  loading,            \* useModels state
  error,              \* useModels state
  requests,           \* one record per effect run that called fetchModels
  stage,              \* position in the useMemo callback that derives the list
  list,               \* the entries of map / list in that callback
  localFavorites,     \* ModelSelector state: ids marked favorite locally
  onToggleFavorite,   \* prop: TRUE when the host supplies the handler
  showDeprecated,     \* prop
  sortOrder,          \* "name" or "created"
  now,                \* ModelSelector state: the instant of the deprecation checks
  storage,            \* localStorage: what is stored under storageKey
  handlerCalls,       \* the ids onToggleFavorite was called with
  fn,                 \* a call of a normalizer function: its name,
  arg,                \* its argument,
  out,                \* and what it returned or threw
  open,               \* ModelSelector state: the popover is shown
  clock,              \* Date.now()
  marked,             \* the rendered ModelItems: <<id, deprecatedPast of its last render>>
  visible,            \* ModelTooltip state
  openTimer,          \* ModelTooltip ref: the timer show() set last
  closeTimer,         \* ModelTooltip ref: the timer hide() set last
  timers              \* the timers ModelTooltip has set, in the order of their ids

vars == <<lifecycle, hasAbortSignalAny, baseUrl, models, apiKey, queryParamsKey,
          type, allModels, loading, error, requests, stage, list,
          localFavorites, onToggleFavorite, showDeprecated, sortOrder, now,
          storage, handlerCalls, fn, arg, out,
          open, clock, marked, visible, openTimer, closeTimer, timers>>

props == <<baseUrl, models, apiKey, queryParamsKey, type>>

\* The variables of the derivation callback.
derivation == <<stage, list>>

\* What the derivation reads besides the fetched models and the models prop.
selectorInputs == <<localFavorites, onToggleFavorite, showDeprecated, sortOrder, now>>

\* What a favorite toggle writes outside the component.
favoritesStore == <<storage, handlerCalls>>

\* The variables of ModelSelector around the hook.
selector == <<derivation, selectorInputs, favoritesStore>>

\* The variables of a normalizer call.
call == <<fn, arg, out>>

\* The variables of the popover and its items.
popover == <<open, clock, marked>>

\* The variables of a ModelTooltip.
tooltip == <<visible, openTimer, closeTimer, timers>>

----------------------------------------------------------------------------
\* useModels: the pure parts

\* Variant of IsFalsy that takes the empty string for a baseUrl.
IsFalsyOnlyUndefined(url) == url = Undefined

\* !baseUrl
IsFalsy(url) == url = Undefined \/ url = <<>>

\* The /i flag: the letters of "https" compare without case.
Lower(c) ==
  CASE c = "H" -> "h"
    [] c = "T" -> "t"
    [] c = "P" -> "p"
    [] c = "S" -> "s"
    [] OTHER -> c

\* The literal lit matches s at position i, ignoring case.
MatchesAt(s, i, lit) ==
  /\ i + Len(lit) - 1 <= Len(s)
  /\ \A k \in 1..Len(lit) : Lower(s[i + k - 1]) = lit[k]

\* Variant of SchemeRegexTest without the "//" of the pattern.
SchemeRegexTestNoSlashes(url) ==
  /\ MatchesAt(url, 1, <<"h", "t", "t", "p">>)
  /\ \/ MatchesAt(url, 5, <<"s", ":">>)
     \/ MatchesAt(url, 5, <<":">>)

\* /^https?:\/\//i.test(url): "http", an optional "s", then "://".
SchemeRegexTest(url) ==
  /\ MatchesAt(url, 1, <<"h", "t", "t", "p">>)
  /\ \/ MatchesAt(url, 5, <<"s", ":", "/", "/">>)
     \/ MatchesAt(url, 5, <<":", "/", "/">>)

InvalidSchemeError ==
  MkError("Error", <<"Invalid baseUrl scheme: URL must start with http:// or https://">>)

\* new Error(`Failed to load models (HTTP ${response.status})`)
HttpError(status) ==
  MkError("Error", <<"Failed to load models (HTTP ", ToString(status), ")">>)

InvalidResponseError ==
  MkError("Error", <<"Invalid response: expected JSON object or array">>)

\* err instanceof Error ? err : new Error(String(err))
ToError(e) == IF e.isError THEN e ELSE MkError("Error", e.message)

\* !json || (typeof json !== 'object' && !Array.isArray(json))
IsInvalidJson(body) == body.kind = "null" \/ body.kind = "scalar"

\* An extractor that looks at body.models before body.data.
ExtractorModelsFirst(body) ==
  IF body.kind = "array" THEN body.items
  ELSE IF body.kind = "object" /\ body.modelsIsArray THEN body.modelsList
  ELSE IF body.kind = "object" /\ body.dataIsArray THEN body.data
  ELSE <<>>

\* defaultResponseExtractor
Extractor(body) ==
  IF body.kind = "array" THEN body.items
  ELSE IF body.kind = "object" /\ body.dataIsArray THEN body.data
  ELSE IF body.kind = "object" /\ body.modelsIsArray THEN body.modelsList
  ELSE <<>>

\* item !== null && typeof item === 'object' && !Array.isArray(item)
IsRecord(item) == item.kind = "object"

\* The normalizer in use applied to one record: it throws, returns null,
\* or returns a model.
Normalizer(raw) ==
  [threw |-> raw.out = "throw",
   isNull |-> raw.out = "null",
   model |-> Model(raw.id, raw.name, raw.type)]

\* One pass of the for loop: a record that throws is skipped by the catch,
\* a model is pushed when (model && model.id).
PushNormalized(normalized, raw) ==
  LET res == Normalizer(raw) IN
  IF res.threw THEN normalized
  ELSE IF ~res.isNull /\ res.model.id # "" THEN Append(normalized, res.model)
  ELSE normalized

\* Variant of NormalizeLoop without the try/catch inside the loop: the
\* first record that throws ends the batch.
RECURSIVE NormalizeLoopNoCatch(_, _)
NormalizeLoopNoCatch(rawModels, normalized) ==
  IF rawModels = <<>> \/ Normalizer(Head(rawModels)).threw THEN normalized
  ELSE NormalizeLoopNoCatch(Tail(rawModels), PushNormalized(normalized, Head(rawModels)))

\* for (const raw of rawModels) { try { ... } catch { ... } }
RECURSIVE NormalizeLoop(_, _)
NormalizeLoop(rawModels, normalized) ==
  IF rawModels = <<>> THEN normalized
  ELSE NormalizeLoop(Tail(rawModels), PushNormalized(normalized, Head(rawModels)))

\* extractor(json).filter(...) and the normalization loop
NormalizeBody(body) == NormalizeLoop(SelectSeq(Extractor(body), IsRecord), <<>>)

HookState == [allModels |-> allModels, loading |-> loading, error |-> error]

\* Variant of AfterSuccess without the isMounted guard.
AfterSuccessNoGuard(h, r, normalized) ==
  [allModels |-> normalized, loading |-> FALSE, error |-> Null]

\* The end of the try block and the finally block of the request r.
AfterSuccess(h, r, normalized) ==
  IF r.isMounted
  THEN [allModels |-> normalized, loading |-> FALSE, error |-> Null]
  ELSE h

\* A catch block that sets the error and leaves the models.
AfterCatchKeepsModels(h, r, e) ==
  IF r.isMounted /\ ~r.aborted
  THEN [h EXCEPT !.loading = FALSE, !.error = ToError(e)]
  ELSE IF r.isMounted THEN [h EXCEPT !.loading = FALSE]
  ELSE h

\* The catch block and the finally block of the request r, for the thrown e.
AfterCatch(h, r, e) ==
  IF r.isMounted /\ ~r.aborted
  THEN [allModels |-> <<>>, loading |-> FALSE, error |-> ToError(e)]
  ELSE IF r.isMounted THEN [h EXCEPT !.loading = FALSE]
  ELSE h

\* Where fetchModels ended: its state writes went through ("models",
\* "error"), only the finally block wrote ("cleared"), or nothing did.
EndOfSuccess(r) == IF r.isMounted THEN "models" ELSE "stale"

EndOfCatch(r) ==
  IF r.isMounted /\ ~r.aborted THEN "error"
  ELSE IF r.isMounted THEN "cleared"
  ELSE "stale"

\* const controller = new AbortController(); let isMounted = true;
\* fetchModels() up to its first await.
NewRequest(url) ==
  [url |-> url, isMounted |-> TRUE, aborted |-> FALSE, pc |-> "fetch"]

\* An effect with no cleanup.
CleanupNothing(reqs) == reqs

\* The effect's cleanup: isMounted = false; controller.abort()
Cleanup(reqs) ==
  [i \in 1..Len(reqs) |->
     IF reqs[i].isMounted
     THEN [reqs[i] EXCEPT !.isMounted = FALSE, !.aborted = TRUE]
     ELSE reqs[i]]

\* The deadline of the request r passes.  With AbortSignal.any the signal
\* of AbortSignal.timeout(10000) aborts, which leaves the controller as it
\* is; in the fallback the timer callback runs controller.abort().
AfterDeadline(r, signalAny) ==
  IF signalAny THEN r ELSE [r EXCEPT !.aborted = TRUE]

\* The reason the signal handed to fetch aborts with at the deadline.
DeadlineReason(signalAny) == IF signalAny THEN TimeoutErr ELSE AbortError

\* allModels.filter(m => m.type === type)
RECURSIVE FilterByType(_, _)
FilterByType(xs, t) ==
  IF xs = <<>> THEN <<>>
  ELSE IF Head(xs).type = t THEN <<Head(xs)>> \o FilterByType(Tail(xs), t)
  ELSE FilterByType(Tail(xs), t)

\* The models the hook returns (fetchedModels in ModelSelector).
TypeFiltered(xs, t) == IF t = "undefined" \/ t = "" THEN xs ELSE FilterByType(xs, t)

fetchedModels == TypeFiltered(allModels, type)

----------------------------------------------------------------------------
\* ModelSelector

\* Variant of EffectiveBaseUrl that passes baseUrl on whatever models is.
EffectiveBaseUrlAlways(ms, url) == url

\* models.length > 0 ? undefined : baseUrl
EffectiveBaseUrl(ms, url) == IF Len(ms) > 0 THEN Undefined ELSE url

effectiveBaseUrl == EffectiveBaseUrl(models, baseUrl)

\* map.set(m.id, m) on an insertion-ordered Map, kept as the sequence of
\* its values: an id already present keeps its place and takes the new
\* value, a new id goes to the end.
MapSet(map, m) ==
  IF \E i \in 1..Len(map) : map[i].id = m.id
  THEN [i \in 1..Len(map) |-> IF map[i].id = m.id THEN m ELSE map[i]]
  ELSE Append(map, m)

\* ms.forEach(m => map.set(m.id, m))
RECURSIVE SetAll(_, _)
SetAll(map, ms) ==
  IF ms = <<>> THEN map ELSE SetAll(MapSet(map, Head(ms)), Tail(ms))

\* Variant of MergeModels that inserts the models prop first.
MergeModelsStaticFirst(fetched, static) == SetAll(SetAll(<<>>, static), fetched)

\* The merge of the derivation: fetched models first, then the models prop.
MergeModels(fetched, static) == SetAll(SetAll(<<>>, fetched), static)

\* The models of the derivation.  id and name are tuples of characters;
\* created is a number; deprecation is the optional field: present says
\* whether the model has it, valid whether new Date(deprecation.date) is a
\* valid date, and time is that date's time value.
Deprecation(present, valid, time) == [present |-> present, valid |-> valid, time |-> time]

AnyModel(id, name, created, deprecation, is_favorite) ==
  [name |-> name, id |-> id, type |-> "text", created |-> created,
   deprecation |-> deprecation, is_favorite |-> is_favorite]

\* The instants of the derivation's clock snapshot (useState(() => new Date())).
Instants == {2}

NoDeprecation == Deprecation(FALSE, FALSE, 0)
PastDate == Deprecation(TRUE, TRUE, 1)
DateOfNow == Deprecation(TRUE, TRUE, 2)
FutureDate == Deprecation(TRUE, TRUE, 3)
InvalidDate == Deprecation(TRUE, FALSE, 0)

\* new Date(m.deprecation.date) >= now and < now: the time value of an
\* invalid date is NaN, and every comparison with NaN is false.
\* A filter that keeps the dates strictly after now only.
DateGT(deprecation, instant) == deprecation.valid /\ deprecation.time > instant

DateGE(deprecation, instant) == deprecation.valid /\ deprecation.time >= instant

\* A partition that takes "at or before now" for past.
DateLE(deprecation, instant) == deprecation.valid /\ deprecation.time <= instant

DateLT(deprecation, instant) == deprecation.valid /\ deprecation.time < instant

\* The overlay: map.forEach(m => favoritesSet.has(m.id) && map.set(m.id,
\* { ...m, is_favorite: true })), when no handler is given.
FavoritesOverlayAlways(map, handlerGiven, favorites) ==
  [k \in 1..Len(map) |->
     IF \E f \in 1..Len(favorites) : favorites[f] = map[k].id
     THEN [map[k] EXCEPT !.is_favorite = TRUE]
     ELSE map[k]]

FavoritesOverlay(map, handlerGiven, favorites) ==
  IF handlerGiven THEN map
  ELSE [k \in 1..Len(map) |->
          IF \E f \in 1..Len(favorites) : favorites[f] = map[k].id
          THEN [map[k] EXCEPT !.is_favorite = TRUE]
          ELSE map[k]]

\* The showDeprecated filter.
DeprecatedFilter(xs, show, instant) ==
  IF show THEN xs
  ELSE SelectSeq(xs, LAMBDA m : ~m.deprecation.present \/ DateGE(m.deprecation, instant))

UpperCaseLetters ==
  <<"A", "B", "C", "D", "E", "F", "G", "H", "I", "J", "K", "L", "M",
    "N", "O", "P", "Q", "R", "S", "T", "U", "V", "W", "X", "Y", "Z">>

LowerCaseLetters ==
  <<"a", "b", "c", "d", "e", "f", "g", "h", "i", "j", "k", "l", "m",
    "n", "o", "p", "q", "r", "s", "t", "u", "v", "w", "x", "y", "z">>

\* toLowerCase of one character.
ToLowerCase(c) ==
  IF \E i \in 1..26 : UpperCaseLetters[i] = c
  THEN LowerCaseLetters[CHOOSE i \in 1..26 : UpperCaseLetters[i] = c]
  ELSE c

IsUpperCase(c) == ToLowerCase(c) # c

\* The letters in collation order (primary weights).
LetterRank(c) ==
  IF \E i \in 1..26 : LowerCaseLetters[i] = ToLowerCase(c)
  THEN CHOOSE i \in 1..26 : LowerCaseLetters[i] = ToLowerCase(c)
  ELSE 27

\* s.localeCompare(t) for strings of letters: the first difference of the
\* letters without case decides; then the shorter string is first; for
\* strings that are equal without case the first difference in case
\* decides, lower case first.  The result is -1, 0 or 1.
RECURSIVE PrimaryCompare(_, _)
PrimaryCompare(s, t) ==
  IF s = <<>> /\ t = <<>> THEN 0
  ELSE IF s = <<>> THEN -1
  ELSE IF t = <<>> THEN 1
  ELSE IF LetterRank(Head(s)) < LetterRank(Head(t)) THEN -1
  ELSE IF LetterRank(Head(s)) > LetterRank(Head(t)) THEN 1
  ELSE PrimaryCompare(Tail(s), Tail(t))

RECURSIVE CaseCompare(_, _)
CaseCompare(s, t) ==
  IF s = <<>> THEN 0
  ELSE IF IsUpperCase(Head(s)) = IsUpperCase(Head(t)) THEN CaseCompare(Tail(s), Tail(t))
  ELSE IF IsUpperCase(Head(t)) THEN -1
  ELSE 1

\* A comparison by code units, which puts every upper-case letter before
\* every lower-case letter.
CodeUnit(c) == IF IsUpperCase(c) THEN LetterRank(c) ELSE 32 + LetterRank(c)

RECURSIVE CodeUnitCompare(_, _)
CodeUnitCompare(s, t) ==
  IF s = <<>> /\ t = <<>> THEN 0
  ELSE IF s = <<>> THEN -1
  ELSE IF t = <<>> THEN 1
  ELSE IF CodeUnit(Head(s)) < CodeUnit(Head(t)) THEN -1
  ELSE IF CodeUnit(Head(s)) > CodeUnit(Head(t)) THEN 1
  ELSE CodeUnitCompare(Tail(s), Tail(t))

LocaleCompare(s, t) ==
  IF PrimaryCompare(s, t) # 0 THEN PrimaryCompare(s, t) ELSE CaseCompare(s, t)

\* a.name || a.id
NameOrId(m) == IF m.name = <<>> THEN m.id ELSE m.name

\* The comparator handed to list.sort.
Comparator(order, a, b) ==
  IF order = "created" THEN b.created - a.created
  ELSE LocaleCompare(NameOrId(a), NameOrId(b))

\* One insertion of a stable sort: x goes behind the last entry that the
\* comparator does not put after it.
SortInsert(sorted, x, order) ==
  LET n == Len(sorted)
      p == CHOOSE j \in 0..n :
             /\ \A i \in (j + 1)..n : Comparator(order, sorted[i], x) > 0
             /\ j = 0 \/ Comparator(order, sorted[j], x) <= 0
  IN SubSeq(sorted, 1, p) \o <<x>> \o SubSeq(sorted, p + 1, n)

\* list.sort(comparator): Array.prototype.sort is stable.
RECURSIVE ArraySort(_, _)
ArraySort(xs, order) ==
  IF xs = <<>> THEN <<>>
  ELSE SortInsert(ArraySort(SubSeq(xs, 1, Len(xs) - 1), order), xs[Len(xs)], order)

\* m.deprecation && new Date(m.deprecation.date) < now
IsPastDeprecated(m, instant) == m.deprecation.present /\ DateLT(m.deprecation, instant)

\* [...nonDeprecated, ...deprecated]
DeprecationPartition(xs, instant) ==
  SelectSeq(xs, LAMBDA m : ~IsPastDeprecated(m, instant))
    \o SelectSeq(xs, LAMBDA m : IsPastDeprecated(m, instant))

\* localStorage.getItem(storageKey): null, or the text stored, which is the
\* JSON of a list of strings ("favorites"), JSON of something else
\* ("other"), or not JSON ("garbage").
StoredItem(kind, favorites) == [kind |-> kind, favorites |-> favorites]

NoItem == StoredItem("null", <<>>)

\* The load of the mount effect: the stored text replaces the local
\* favorites when there is no handler and the text is the JSON of a list of
\* strings; a missing item, other JSON and a text that JSON.parse throws on
\* leave them as they are.
LoadFavorites(current, handlerGiven, item) ==
  IF ~handlerGiven /\ item.kind = "favorites" THEN item.favorites ELSE current

\* prev.includes(modelId) ? prev.filter(id => id !== modelId) : [...prev, modelId]
ToggledList(prev, modelId) ==
  IF \E i \in 1..Len(prev) : prev[i] = modelId
  THEN SelectSeq(prev, LAMBDA id : id # modelId)
  ELSE Append(prev, modelId)

\* localStorage.setItem(storageKey, JSON.stringify(next)), which may throw.
SetItem(item, next, writeThrows) ==
  IF writeThrows THEN item ELSE StoredItem("favorites", next)

\* An updater with no try around the write: the exception leaves the state
\* as it was and reaches the caller.
UpdaterNoCatch(prev, modelId, item, writeThrows) ==
  [storage |-> SetItem(item, ToggledList(prev, modelId), writeThrows),
   threw |-> writeThrows,
   favorites |-> IF writeThrows THEN prev ELSE ToggledList(prev, modelId)]

\* The updater handed to setLocalFavorites, with the item stored when it
\* returns and whether it threw.
Updater(prev, modelId, item, writeThrows) ==
  [storage |-> SetItem(item, ToggledList(prev, modelId), writeThrows),
   threw |-> FALSE,
   favorites |-> ToggledList(prev, modelId)]

\* The props and state of ModelSelector that the hook's runs leave alone.
SelectorDefaults ==
  /\ localFavorites = <<>>
  /\ onToggleFavorite = FALSE
  /\ showDeprecated = TRUE
  /\ sortOrder = "name"
  /\ now \in Instants

NoStore == storage = NoItem /\ handlerCalls = <<>>

NoCall == fn = "none" /\ arg = "none" /\ out = "none"

NoPopover == open = FALSE /\ clock = 0 /\ marked = {}

NoTooltip == visible = FALSE /\ openTimer = 0 /\ closeTimer = 0 /\ timers = <<>>

----------------------------------------------------------------------------
\* Operations

Init ==
  /\ lifecycle = "init"
  /\ hasAbortSignalAny \in BOOLEAN
  /\ baseUrl = Undefined
  /\ models = <<>>
  /\ apiKey = "undefined"
  /\ queryParamsKey = "undefined"
  /\ type = "undefined"
  /\ allModels = <<>>
  /\ loading = FALSE
  /\ error = Null
  /\ requests = <<>>
  /\ stage = "idle"
  /\ list = <<>>
  /\ SelectorDefaults
  /\ NoStore
  /\ NoCall
  /\ NoPopover
  /\ NoTooltip

SetHook(h) ==
  /\ allModels' = h.allModels
  /\ loading' = h.loading
  /\ error' = h.error

\* The body of the effect for the hook's baseUrl url, after the cleanup of
\* the previous run.
RunEffect(url) ==
  IF IsFalsy(url)
  THEN /\ SetHook([allModels |-> <<>>, loading |-> FALSE, error |-> Null])
       /\ requests' = Cleanup(requests)
  ELSE IF ~SchemeRegexTest(url)
  THEN /\ SetHook([allModels |-> <<>>, loading |-> FALSE, error |-> InvalidSchemeError])
       /\ requests' = Cleanup(requests)
  ELSE /\ Len(requests) < MaxRequests
       /\ SetHook([HookState EXCEPT !.loading = TRUE, !.error = Null])
       /\ requests' = Append(Cleanup(requests), NewRequest(url))

\* The component mounts with its first props: first render, then the effect.
Mount(url, ms, key, qp, t) ==
  /\ lifecycle = "init"
  /\ lifecycle' = "mounted"
  /\ baseUrl' = url
  /\ models' = ms
  /\ apiKey' = key
  /\ queryParamsKey' = qp
  /\ type' = t
  /\ RunEffect(EffectiveBaseUrl(ms, url))
  /\ UNCHANGED <<hasAbortSignalAny, selector, call,
               popover, tooltip>>

\* Variant of EffectDeps with type among the dependencies.
EffectDepsWithType(url, ms, key, qp, t) == <<EffectiveBaseUrl(ms, url), key, qp, t>>

\* The dependency list of the effect, [baseUrl, apiKey, queryParamsKey],
\* for the props of a render; the hook's baseUrl is effectiveBaseUrl.
EffectDeps(url, ms, key, qp, t) == <<EffectiveBaseUrl(ms, url), key, qp>>

\* The host re-renders with new props; the effect runs again only when
\* one of [baseUrl, apiKey, queryParamsKey] of the hook changed.
Rerender(url, ms, key, qp, t) ==
  /\ lifecycle = "mounted"
  /\ <<url, ms, key, qp, t>> # props
  /\ baseUrl' = url
  /\ models' = ms
  /\ apiKey' = key
  /\ queryParamsKey' = qp
  /\ type' = t
  /\ IF EffectDeps(url, ms, key, qp, t) # EffectDeps(baseUrl, models, apiKey, queryParamsKey, type)
     THEN RunEffect(EffectiveBaseUrl(ms, url))
     ELSE UNCHANGED <<allModels, loading, error, requests>>
  /\ UNCHANGED <<lifecycle, hasAbortSignalAny, selector, call,
               popover, tooltip>>

\* The component unmounts: the cleanup of the last effect run.
Unmount ==
  /\ lifecycle = "mounted"
  /\ lifecycle' = "unmounted"
  /\ requests' = Cleanup(requests)
  /\ UNCHANGED <<hasAbortSignalAny, props, allModels, loading, error, selector, call,
               popover, tooltip>>

\* await fetchFn(url, {headers, signal}) resolves with a response of the
\* given status; a status that is not ok throws into the catch block.
FetchResolves(i, status) ==
  /\ i \in 1..Len(requests)
  /\ requests[i].pc = "fetch"
  /\ IF ResponseOk(status)
     THEN /\ requests' = [requests EXCEPT ![i].pc = "json"]
          /\ UNCHANGED <<allModels, loading, error>>
     ELSE /\ SetHook(AfterCatch(HookState, requests[i], HttpError(status)))
          /\ requests' = [requests EXCEPT ![i].pc = EndOfCatch(requests[i])]
  /\ UNCHANGED <<lifecycle, hasAbortSignalAny, props, selector, call,
               popover, tooltip>>

\* await fetchFn(...) rejects with e.
FetchRejects(i, e) ==
  /\ i \in 1..Len(requests)
  /\ requests[i].pc = "fetch"
  /\ SetHook(AfterCatch(HookState, requests[i], e))
  /\ requests' = [requests EXCEPT ![i].pc = EndOfCatch(requests[i])]
  /\ UNCHANGED <<lifecycle, hasAbortSignalAny, props, selector, call,
               popover, tooltip>>

\* await response.json() resolves with body: validation, extraction, the
\* normalization loop, the state writes and the finally block.
JsonResolves(i, body) ==
  /\ i \in 1..Len(requests)
  /\ requests[i].pc = "json"
  /\ IF IsInvalidJson(body)
     THEN /\ SetHook(AfterCatch(HookState, requests[i], InvalidResponseError))
          /\ requests' = [requests EXCEPT ![i].pc = EndOfCatch(requests[i])]
     ELSE /\ SetHook(AfterSuccess(HookState, requests[i], NormalizeBody(body)))
          /\ requests' = [requests EXCEPT ![i].pc = EndOfSuccess(requests[i])]
  /\ UNCHANGED <<lifecycle, hasAbortSignalAny, props, selector, call,
               popover, tooltip>>

\* await response.json() rejects with e.
JsonRejects(i, e) ==
  /\ i \in 1..Len(requests)
  /\ requests[i].pc = "json"
  /\ SetHook(AfterCatch(HookState, requests[i], e))
  /\ requests' = [requests EXCEPT ![i].pc = EndOfCatch(requests[i])]
  /\ UNCHANGED <<lifecycle, hasAbortSignalAny, props, selector, call,
               popover, tooltip>>

\* The fallback's 10 s timer fires for a request that has not finished
\* (the finally block clears the timer); on an aborted controller abort()
\* does nothing.  With AbortSignal.any the deadline changes no state the
\* hook reads: the fetch function then rejects with a TimeoutError, which
\* FetchRejects and JsonRejects cover.
DeadlineReached(i) ==
  /\ i \in 1..Len(requests)
  /\ ~hasAbortSignalAny
  /\ requests[i].pc \in {"fetch", "json"}
  /\ ~requests[i].aborted
  /\ requests' = [requests EXCEPT ![i] = AfterDeadline(requests[i], hasAbortSignalAny)]
  /\ UNCHANGED <<lifecycle, hasAbortSignalAny, props, allModels, loading, error, selector, call,
               popover, tooltip>>

Next ==
  \/ \E url \in BaseUrls, ms \in StaticLists, key \in ApiKeys,
        qp \in QueryParamsKeys, t \in TypeOptions : Mount(url, ms, key, qp, t)
  \/ \E url \in BaseUrls, ms \in StaticLists :
        Rerender(url, ms, apiKey, queryParamsKey, type)
  \/ \E key \in ApiKeys : Rerender(baseUrl, models, key, queryParamsKey, type)
  \/ \E qp \in QueryParamsKeys : Rerender(baseUrl, models, apiKey, qp, type)
  \/ \E t \in TypeOptions : Rerender(baseUrl, models, apiKey, queryParamsKey, t)
  \/ Unmount
  \/ \E i \in 1..MaxRequests, status \in Statuses : FetchResolves(i, status)
  \/ \E i \in 1..MaxRequests, e \in RejectionValues : FetchRejects(i, e)
  \/ \E i \in 1..MaxRequests, body \in Bodies : JsonResolves(i, body)
  \/ \E i \in 1..MaxRequests, e \in RejectionValues : JsonRejects(i, e)
  \/ \E i \in 1..MaxRequests : DeadlineReached(i)

Spec == Init /\ [][Next]_vars

----------------------------------------------------------------------------
\* The derivation of ModelSelector as a function of its inputs
\*
\* The useMemo callbacks of a render compute the list on show from what
\* the hook returned and from the models prop.  A render can see a fetched
\* list and a models prop that are both non-empty: the render in which
\* models is first given still reads the state of the hook before the
\* effect of that render clears it.  The inputs are therefore drawn freely.

\* The longest list of fetched models and of static models drawn.
MaxListLen == 2

\* The sequences over S of length up to n.
SeqsUpTo(S, n) == UNION {[1..k -> S] : k \in 0..n}

FetchedPool ==
  {AnyModel(<<"a">>, <<"A", "b">>, 3, PastDate, FALSE),
   AnyModel(<<"b">>, <<>>, 1, NoDeprecation, FALSE),
   AnyModel(<<"c">>, <<"a", "B">>, 2, InvalidDate, FALSE)}

StaticPool ==
  {AnyModel(<<"a">>, <<"B">>, 2, DateOfNow, TRUE),
   AnyModel(<<"d">>, <<"a", "b">>, 2, FutureDate, FALSE),
   AnyModel(<<"d">>, <<"b">>, 3, PastDate, FALSE)}

\* The local favorites drawn.
FavoriteLists == {<<>>, <<(<<"a">>), (<<"d">>)>>}

\* A render of ModelSelector with the hook settled on a fetched list.
DeriveInit ==
  /\ lifecycle = "mounted"
  /\ hasAbortSignalAny = TRUE
  /\ baseUrl = UrlHttps
  /\ models \in SeqsUpTo(StaticPool, MaxListLen)
  /\ apiKey = "undefined"
  /\ queryParamsKey = "undefined"
  /\ type = "undefined"
  /\ allModels \in SeqsUpTo(FetchedPool, MaxListLen)
  /\ loading = FALSE
  /\ error = Null
  /\ requests = <<>>
  /\ stage = "start"
  /\ list = <<>>
  /\ localFavorites \in FavoriteLists
  /\ onToggleFavorite \in BOOLEAN
  /\ showDeprecated \in BOOLEAN
  /\ sortOrder \in {"name", "created"}
  /\ now \in Instants
  /\ NoStore
  /\ NoCall
  /\ NoPopover
  /\ NoTooltip

\* What a stage of the callback leaves alone: everything but stage and list.
DeriveFrame ==
  UNCHANGED <<lifecycle, hasAbortSignalAny, props, allModels, loading, error, requests,
              selectorInputs, favoritesStore, call, popover, tooltip>>

\* The allModels callback: the merge of fetchedModels and models.
MergeStage ==
  /\ stage = "start"
  /\ stage' = "merged"
  /\ list' = MergeModels(fetchedModels, models)
  /\ DeriveFrame

\* if (!onToggleFavorite) { ...overlay... }; list = Array.from(map.values())
OverlayStage ==
  /\ stage = "merged"
  /\ stage' = "overlaid"
  /\ list' = FavoritesOverlay(list, onToggleFavorite, localFavorites)
  /\ DeriveFrame

\* if (!showDeprecated) list = list.filter(...)
FilterStage ==
  /\ stage = "overlaid"
  /\ stage' = "filtered"
  /\ list' = DeprecatedFilter(list, showDeprecated, now)
  /\ DeriveFrame

\* list.sort(...)
SortStage ==
  /\ stage = "filtered"
  /\ stage' = "sorted"
  /\ list' = ArraySort(list, sortOrder)
  /\ DeriveFrame

\* The loop over list and the returned [...nonDeprecated, ...deprecated].
PartitionStage ==
  /\ stage = "sorted"
  /\ stage' = "partitioned"
  /\ list' = DeprecationPartition(list, now)
  /\ DeriveFrame

DeriveNext ==
  \/ MergeStage
  \/ OverlayStage
  \/ FilterStage
  \/ SortStage
  \/ PartitionStage

SpecDerive == DeriveInit /\ [][DeriveNext]_vars

----------------------------------------------------------------------------
\* The favorites of ModelSelector: the mount effect and the toggle

MaxToggles == 2

FavoriteIds == {<<"a">>, <<"d">>}

StoredItems ==
  {NoItem, StoredItem("other", <<>>), StoredItem("garbage", <<>>),
   StoredItem("favorites", <<>>), StoredItem("favorites", <<(<<"a">>)>>),
   StoredItem("favorites", <<(<<"a">>), (<<"d">>), (<<"a">>)>>)}

FavoritesInit ==
  /\ lifecycle = "init"
  /\ hasAbortSignalAny = TRUE
  /\ baseUrl = Undefined
  /\ models = <<>>
  /\ apiKey = "undefined"
  /\ queryParamsKey = "undefined"
  /\ type = "undefined"
  /\ allModels = <<>>
  /\ loading = FALSE
  /\ error = Null
  /\ requests = <<>>
  /\ stage = "start"
  /\ list = <<>>
  /\ localFavorites = <<>>
  /\ onToggleFavorite \in BOOLEAN
  /\ showDeprecated = TRUE
  /\ sortOrder = "name"
  /\ now \in Instants
  /\ storage \in StoredItems
  /\ handlerCalls = <<>>
  /\ NoCall
  /\ NoPopover
  /\ NoTooltip

\* isDeprecated(dateStr), with Date.now() the instant given.
IsDeprecated(deprecation, instant) == deprecation.valid /\ deprecation.time < instant

\* The allModels callback as a whole: merge, overlay, filter, sort, partition.
DerivedList(fetched, static, favorites, handlerGiven, show, order, instant) ==
  DeprecationPartition(
    ArraySort(
      DeprecatedFilter(
        FavoritesOverlay(MergeModels(fetched, static), handlerGiven, favorites),
        show, instant),
      order),
    instant)

\* The ModelItems after a commit that takes the list from before to after:
\* an item whose props are equal keeps its render, every other item is
\* rendered at the instant given.
ItemMarks(before, after, marks, instant) ==
  {<<after[k].id,
     IF /\ \E j \in 1..Len(before) :
             before[j].id = after[k].id /\ before[j].is_favorite = after[k].is_favorite
        /\ \E mark \in marks : mark[1] = after[k].id
       THEN (CHOOSE mark \in marks : mark[1] = after[k].id)[2]
     ELSE after[k].deprecation.present /\ IsDeprecated(after[k].deprecation, instant)>> :
    k \in 1..Len(after)}

\* What the favorites code leaves alone.
FavoritesFrame ==
  UNCHANGED <<hasAbortSignalAny, props, allModels, loading, error, requests,
              derivation, showDeprecated, sortOrder, now, open, clock, tooltip>>

\* The items after a commit that changes the favorites or the handler.
ItemsRendered ==
  marked' =
    IF open
      THEN ItemMarks(DerivedList(fetchedModels, models, localFavorites, onToggleFavorite,
                                 showDeprecated, sortOrder, now),
                     DerivedList(fetchedModels, models, localFavorites', onToggleFavorite',
                                 showDeprecated, sortOrder, now),
                     marked, clock)
    ELSE marked

\* The mount of ModelSelector and the first run of the load effect.
MountFavorites ==
  /\ lifecycle = "init"
  /\ lifecycle' = "mounted"
  /\ localFavorites' = LoadFavorites(localFavorites, onToggleFavorite, storage)
  /\ UNCHANGED <<onToggleFavorite, favoritesStore, call, marked>>
  /\ FavoritesFrame

\* A render that passes or drops onToggleFavorite; the load effect runs
\* again because onToggleFavorite is one of its dependencies.
PassOnToggleFavorite(handlerGiven) ==
  /\ lifecycle = "mounted"
  /\ handlerGiven # onToggleFavorite
  /\ onToggleFavorite' = handlerGiven
  /\ localFavorites' = LoadFavorites(localFavorites, handlerGiven, storage)
  /\ UNCHANGED <<lifecycle, favoritesStore, call>>
  /\ ItemsRendered
  /\ FavoritesFrame

\* handleToggleFavorite(modelId)
HandleToggleFavorite(modelId, writeThrows) ==
  /\ lifecycle = "mounted"
  /\ fn' = "handleToggleFavorite"
  /\ arg' = modelId
  /\ IF onToggleFavorite
     THEN /\ Len(handlerCalls) < MaxToggles
          /\ handlerCalls' = Append(handlerCalls, modelId)
          /\ out' = "returned"
          /\ UNCHANGED <<localFavorites, storage>>
     ELSE /\ localFavorites' = Updater(localFavorites, modelId, storage, writeThrows).favorites
          /\ storage' = Updater(localFavorites, modelId, storage, writeThrows).storage
          /\ out' = IF Updater(localFavorites, modelId, storage, writeThrows).threw
                    THEN "threw" ELSE "returned"
          /\ UNCHANGED handlerCalls
  /\ UNCHANGED <<lifecycle, onToggleFavorite>>
  /\ ItemsRendered
  /\ FavoritesFrame

FavoritesNext ==
  \/ MountFavorites
  \/ \E handlerGiven \in BOOLEAN : PassOnToggleFavorite(handlerGiven)
  \/ \E modelId \in FavoriteIds, writeThrows \in BOOLEAN :
       HandleToggleFavorite(modelId, writeThrows)

SpecFavorites == FavoritesInit /\ [][FavoritesNext]_vars

----------------------------------------------------------------------------
\* The popover of ModelSelector: its items while the clock runs

\* Bound of the model: the last instant the clock reaches.
MaxClock == 4

\* A ModelSelector about to mount with models given by the host: one marked
\* favorite by the host and deprecated at the instant of the mount, one to
\* be deprecated an instant later, one with a date that does not parse.
PopoverInit ==
  /\ lifecycle = "init"
  /\ hasAbortSignalAny = TRUE
  /\ baseUrl = Undefined
  /\ models \in LET a == AnyModel(<<"a">>, <<"B">>, 2, DateOfNow, TRUE)
                     d == AnyModel(<<"d">>, <<"a", "b">>, 2, FutureDate, FALSE)
                     e == AnyModel(<<"e">>, <<"c">>, 1, InvalidDate, FALSE)
                 IN {<<a>>, <<d>>, <<a, d>>, <<d, e>>}
  /\ apiKey = "undefined"
  /\ queryParamsKey = "undefined"
  /\ type = "undefined"
  /\ allModels = <<>>
  /\ loading = FALSE
  /\ error = Null
  /\ requests = <<>>
  /\ stage = "start"
  /\ list = <<>>
  /\ localFavorites = <<>>
  /\ onToggleFavorite \in BOOLEAN
  /\ showDeprecated \in BOOLEAN
  /\ sortOrder = "name"
  /\ now \in Instants
  /\ storage \in {NoItem, StoredItem("favorites", <<(<<"a">>)>>)}
  /\ handlerCalls = <<>>
  /\ NoCall
  /\ open = FALSE
  /\ clock = now
  /\ marked = {}
  /\ NoTooltip

PopoverFrame ==
  UNCHANGED <<lifecycle, hasAbortSignalAny, props, allModels, loading, error, requests,
              derivation, localFavorites, onToggleFavorite, showDeprecated, sortOrder,
              favoritesStore, call, tooltip>>

\* handleOpenChange(true), the effect that refreshes now, and the items
\* the popover mounts.
OpenPopover ==
  /\ lifecycle = "mounted"
  /\ ~open
  /\ open' = TRUE
  /\ now' = clock
  /\ marked' = ItemMarks(<<>>,
                         DerivedList(fetchedModels, models, localFavorites, onToggleFavorite,
                                     showDeprecated, sortOrder, clock),
                         {}, clock)
  /\ UNCHANGED clock
  /\ PopoverFrame

\* handleOpenChange(false): the items are unmounted.
ClosePopover ==
  /\ lifecycle = "mounted"
  /\ open
  /\ open' = FALSE
  /\ marked' = {}
  /\ UNCHANGED <<now, clock>>
  /\ PopoverFrame

\* The clock of the runtime moves on.
ClockTick ==
  /\ lifecycle = "mounted"
  /\ clock < MaxClock
  /\ clock' = clock + 1
  /\ UNCHANGED <<now, open, marked>>
  /\ PopoverFrame

PopoverNext ==
  \/ MountFavorites
  \/ \E handlerGiven \in BOOLEAN : PassOnToggleFavorite(handlerGiven)
  \/ \E modelId \in FavoriteIds, writeThrows \in BOOLEAN :
       HandleToggleFavorite(modelId, writeThrows)
  \/ OpenPopover
  \/ ClosePopover
  \/ ClockTick

SpecPopover == PopoverInit /\ [][PopoverNext]_vars

----------------------------------------------------------------------------
\* The normalizers.  A raw record is modelled by the fields that decide the
\* id, the type and is_favorite of the model: id, model_id, type,
\* is_favorite and model_spec.is_favorite.  Strings are tuples of
\* characters; an absent field is Undefined.  The other fields of the model
\* (name, provider, created, pricing, ...) are not modelled here.

JsNull == <<"null">>

\* The operands that || and ?? pass over.
IsFalsyValue(v) == v \in {Undefined, JsNull, <<>>}

IsNullish(v) == v \in {Undefined, JsNull}

\* A JavaScript value given to toNum or held in a pricing field: its type
\* ("undefined", "null", "string", "number"), its characters when it is a
\* string and, when it is a number, which number ("finite", "NaN",
\* "Infinity", "-Infinity") and its amount in millionths, so that a division
\* by 1_000_000 is exact.
Js(t, s, num, v) == [s |-> s, t |-> t, v |-> v, num |-> num]

\* The value of a run of decimal digits.
RECURSIVE DigitsValue(_)
DigitsValue(s) ==
  IF s = <<>> THEN 0
  ELSE LET digits == <<"0", "1", "2", "3", "4", "5", "6", "7", "8", "9">>
           last == s[Len(s)]
       IN 10 * DigitsValue(SubSeq(s, 1, Len(s) - 1))
            + (CHOOSE i \in 1..10 : digits[i] = last) - 1

\* Number(v) of a string: white space is trimmed, the empty string is 0,
\* "Infinity" with an optional sign is infinite, a signed decimal literal
\* (without exponent, at most six decimals) is its value, anything else NaN.
StringToNumber(s) ==
  LET isDigits(x) == \A i \in 1..Len(x) :
                       x[i] \in {"0", "1", "2", "3", "4", "5", "6", "7", "8", "9"}
      trim(x, inked) ==
        IF inked = {} THEN <<>>
        ELSE SubSeq(x, CHOOSE i \in inked : \A j \in inked : i <= j,
                       CHOOSE i \in inked : \A j \in inked : j <= i)
      literal(whole, decimals) ==
        IF /\ isDigits(whole) /\ isDigits(decimals)
           /\ Len(whole) + Len(decimals) > 0
           /\ Len(decimals) <= 6
          THEN Js("number", <<>>, "finite",
                  DigitsValue(whole) * 1000000
                    + DigitsValue(decimals) * 10 ^ (6 - Len(decimals)))
        ELSE Js("number", <<>>, "NaN", 0)
      split(body, dots) ==
        IF dots = {} THEN literal(body, <<>>)
        ELSE IF Cardinality(dots) > 1 THEN Js("number", <<>>, "NaN", 0)
        ELSE literal(SubSeq(body, 1, (CHOOSE i \in dots : TRUE) - 1),
                     SubSeq(body, (CHOOSE i \in dots : TRUE) + 1, Len(body)))
      unsigned(body) ==
        IF body = <<"I", "n", "f", "i", "n", "i", "t", "y">>
          THEN Js("number", <<>>, "Infinity", 0)
        ELSE split(body, {i \in 1..Len(body) : body[i] = "."})
      negated(n) ==
        IF n.num = "Infinity" THEN Js("number", <<>>, "-Infinity", 0)
        ELSE Js("number", <<>>, n.num, 0 - n.v)
      signed(trimmed) ==
        IF trimmed = <<>> THEN Js("number", <<>>, "finite", 0)
        ELSE IF trimmed[1] = "-" THEN negated(unsigned(Tail(trimmed)))
        ELSE IF trimmed[1] = "+" THEN unsigned(Tail(trimmed))
        ELSE unsigned(trimmed)
  IN signed(trim(s, {i \in 1..Len(s) : s[i] # " "}))

\* Number(v): undefined is NaN, null is 0, a number is itself.
ToNumber(v) ==
  CASE v.t = "undefined" -> Js("number", <<>>, "NaN", 0)
    [] v.t = "null" -> Js("number", <<>>, "finite", 0)
    [] v.t = "string" -> StringToNumber(v.s)
    [] v.t = "number" -> v

\* toNum: null, undefined and '' are undefined; otherwise Number(v), unless
\* it is NaN.
toNum(v) ==
  IF v.t = "null" \/ v.t = "undefined" \/ (v.t = "string" /\ v.s = <<>>)
    THEN Js("undefined", <<>>, "", 0)
  ELSE LET n == ToNumber(v)
       IN IF n.num = "NaN" THEN Js("undefined", <<>>, "", 0) ELSE n

\* A flat pricing object (raw.pricing, raw.metadata.pricing, raw.cost): is it
\* an object or undefined, and the value under each key (undefined when the
\* key is missing).
PricingSource(is, prompt, completion, cache_input, cache_write) ==
  [is |-> is, prompt |-> prompt, completion |-> completion,
   cache_input |-> cache_input, cache_write |-> cache_write]

\* One { usd, diem } entry of model_spec.pricing: is it an object or
\* undefined, and the value under usd (undefined when the key is missing).
PricingEntry(is, usd) == [is |-> is, usd |-> usd]

\* model_spec.pricing, with the entry under each key; upscale_2x and
\* upscale_4x are upscale['2x'] and upscale['4x'], and resolutions is an
\* object from resolution label to entry, or undefined.
SpecPricing(is, first, second, resolutions) ==
  [is |-> is, cache_input |-> second, cache_write |-> first,
   resolutions |-> resolutions, input |-> first, output |-> second,
   generation |-> first, upscale_2x |-> second, upscale_4x |-> first,
   per_audio_second |-> second]

\* A raw record.  is_favorite is TRUE when the record has it set;
\* model_spec is "undefined" when absent, "object" for an object without
\* is_favorite and "favorite" for an object that has it set.  The record
\* built here has no pricing anywhere.
RawModel(id, model_id, rawType, is_favorite, model_spec) ==
  LET undefined == Js("undefined", <<>>, "", 0)
      noSource == PricingSource("undefined", undefined, undefined, undefined, undefined)
      noEntry == PricingEntry("undefined", undefined)
  IN [id |-> id, type |-> rawType, is_favorite |-> is_favorite,
      model_id |-> model_id, model_spec |-> model_spec,
      pricing |-> noSource, cost |-> noSource, metadata_pricing |-> noSource,
      spec_pricing |-> SpecPricing("undefined", noEntry, noEntry,
                                   [is |-> "undefined", entries |-> <<>>])]

\* \w of a regular expression.
IsWordChar(c) ==
  \/ c \in {"0", "1", "2", "3", "4", "5", "6", "7", "8", "9"}
  \/ c = "_"
  \/ \E i \in 1..26 : LowerCaseLetters[i] = c \/ UpperCaseLetters[i] = c

\* \b between the positions p and p + 1 of id.
IsWordBoundary(id, p) ==
  (p >= 1 /\ p <= Len(id) /\ IsWordChar(id[p])) #
    (p + 1 >= 1 /\ p + 1 <= Len(id) /\ IsWordChar(id[p + 1]))

\* word stands in id from position p on, case ignored.
WordAt(id, p, word) ==
  /\ p + Len(word) - 1 <= Len(id)
  /\ \A k \in 1..Len(word) : ToLowerCase(id[p + k - 1]) = word[k]

\* /\b(w1|w2|...)\b/i.test(id)
PatternTest(words, id) ==
  \E p \in 1..Len(id) : \E word \in words :
    /\ WordAt(id, p, word)
    /\ IsWordBoundary(id, p - 1)
    /\ IsWordBoundary(id, p + Len(word) - 1)

\* The rules in the order of the source: the type of a rule and the words
\* of its pattern.
MODEL_ID_TYPE_PATTERNS ==
  <<[type |-> "embedding",
     words |-> {<<"e", "m", "b", "e", "d">>,
                <<"e", "m", "b", "e", "d", "d", "i", "n", "g">>}],
    [type |-> "image",
     words |-> {<<"d", "a", "l", "l", "-", "e">>,
                <<"s", "t", "a", "b", "l", "e", "-", "d", "i", "f", "f", "u", "s", "i", "o", "n">>,
                <<"s", "d", "x", "l">>,
                <<"m", "i", "d", "j", "o", "u", "r", "n", "e", "y">>,
                <<"f", "l", "u", "x">>}],
    [type |-> "tts", words |-> {<<"t", "t", "s">>}],
    [type |-> "asr", words |-> {<<"w", "h", "i", "s", "p", "e", "r">>, <<"a", "s", "r">>}],
    [type |-> "video",
     words |-> {<<"s", "o", "r", "a">>, <<"v", "i", "d", "e", "o">>, <<"w", "a", "n">>}],
    [type |-> "inpaint", words |-> {<<"i", "n", "p", "a", "i", "n", "t">>}],
    [type |-> "upscale",
     words |-> {<<"u", "p", "s", "c", "a", "l", "e">>, <<"e", "s", "r", "g", "a", "n">>}]>>

\* A loop that does not stop at the first match.
InferTypeFromIdLastMatch(id) ==
  IF \E i \in 1..Len(MODEL_ID_TYPE_PATTERNS) : PatternTest(MODEL_ID_TYPE_PATTERNS[i].words, id)
  THEN MODEL_ID_TYPE_PATTERNS[
         CHOOSE i \in 1..Len(MODEL_ID_TYPE_PATTERNS) :
           /\ PatternTest(MODEL_ID_TYPE_PATTERNS[i].words, id)
           /\ \A j \in (i + 1)..Len(MODEL_ID_TYPE_PATTERNS) :
                ~PatternTest(MODEL_ID_TYPE_PATTERNS[j].words, id)].type
  ELSE "undefined"

\* for (const [pattern, type] of MODEL_ID_TYPE_PATTERNS)
\*   if (pattern.test(id)) return type
\* return undefined
InferTypeFromId(id) ==
  IF \E i \in 1..Len(MODEL_ID_TYPE_PATTERNS) : PatternTest(MODEL_ID_TYPE_PATTERNS[i].words, id)
  THEN MODEL_ID_TYPE_PATTERNS[
         CHOOSE i \in 1..Len(MODEL_ID_TYPE_PATTERNS) :
           /\ PatternTest(MODEL_ID_TYPE_PATTERNS[i].words, id)
           /\ \A j \in 1..(i - 1) : ~PatternTest(MODEL_ID_TYPE_PATTERNS[j].words, id)].type
  ELSE "undefined"

\* What a call comes to: a value returned or an Error thrown.
Returned(value) == [kind |-> "returned", value |-> value]

Threw(message) == [kind |-> "threw", value |-> message]

\* raw.id || raw.model_id || ''
IdOrModelId(raw) ==
  IF ~IsFalsyValue(raw.id) THEN raw.id
  ELSE IF ~IsFalsyValue(raw.model_id) THEN raw.model_id
  ELSE <<>>

\* A base extraction that copies is_favorite from the record.
ExtractBaseFieldsKeepFavorite(raw) ==
  IF IdOrModelId(raw) = <<>> THEN Threw("Model missing required id field")
  ELSE Returned([id |-> IdOrModelId(raw),
                 is_favorite |-> raw.is_favorite \/ raw.model_spec = "favorite"])

\* A base extraction with no check of the id.
ExtractBaseFieldsNoThrow(raw) ==
  Returned([id |-> IdOrModelId(raw), is_favorite |-> FALSE])

ExtractBaseFields(raw) ==
  IF IdOrModelId(raw) = <<>> THEN Threw("Model missing required id field")
  ELSE Returned([id |-> IdOrModelId(raw), is_favorite |-> FALSE])

\* x?.usd
Usd(entry) ==
  IF entry.is = "object" THEN entry.usd ELSE Js("undefined", <<>>, "", 0)

\* x?.usd !== undefined ? x.usd / 1_000_000 : undefined
PerMillion(entry) ==
  IF Usd(entry).t # "undefined"
    THEN LET n == ToNumber(Usd(entry))
         IN IF n.num = "finite"
              THEN Js("number", <<>>, "finite", n.v \div 1000000)
            ELSE n
  ELSE Js("undefined", <<>>, "", 0)

\* The pricing of normalizeTextModel: the first source that is truthy
\* gives every field.
TextPricing(raw) ==
  LET undefined == Js("undefined", <<>>, "", 0)
  IN IF raw.pricing.is = "object"
       THEN [prompt |-> toNum(raw.pricing.prompt),
             completion |-> toNum(raw.pricing.completion),
             cache_input |-> toNum(raw.pricing.cache_input),
             cache_write |-> toNum(raw.pricing.cache_write)]
     ELSE IF raw.metadata_pricing.is = "object"
       THEN [prompt |-> toNum(raw.metadata_pricing.prompt),
             completion |-> toNum(raw.metadata_pricing.completion),
             cache_input |-> undefined,
             cache_write |-> undefined]
     ELSE IF raw.cost.is = "object"
       THEN [prompt |-> toNum(raw.cost.prompt),
             completion |-> toNum(raw.cost.completion),
             cache_input |-> undefined,
             cache_write |-> undefined]
     ELSE IF raw.spec_pricing.is = "object"
       THEN [prompt |-> PerMillion(raw.spec_pricing.input),
             completion |-> PerMillion(raw.spec_pricing.output),
             cache_input |-> PerMillion(raw.spec_pricing.cache_input),
             cache_write |-> PerMillion(raw.spec_pricing.cache_write)]
     ELSE [prompt |-> undefined, completion |-> undefined,
           cache_input |-> undefined, cache_write |-> undefined]

\* normalizedResolutions of normalizeImageModel: an entry is kept when it
\* is an object with a usd key, at value.usd ?? 0.
NormalizedResolutions(resolutions) ==
  IF resolutions.is = "object"
    THEN LET kept == {key \in DOMAIN resolutions.entries :
                        /\ resolutions.entries[key].is = "object"
                        /\ resolutions.entries[key].usd.t # "undefined"}
         IN [is |-> "object",
             entries |-> [key \in kept |->
                            IF resolutions.entries[key].usd.t = "null"
                              THEN Js("number", <<>>, "finite", 0)
                            ELSE resolutions.entries[key].usd]]
  ELSE [is |-> "undefined", entries |-> <<>>]

\* The pricing object each normalizer returns.
Pricing(modelType, raw) ==
  CASE modelType = "text" -> TextPricing(raw)
    [] modelType = "image" ->
         [resolutions |-> NormalizedResolutions(raw.spec_pricing.resolutions),
          generation |-> Usd(raw.spec_pricing.generation),
          upscale_2x |-> Usd(raw.spec_pricing.upscale_2x),
          upscale_4x |-> Usd(raw.spec_pricing.upscale_4x)]
    [] modelType \in {"inpaint", "upscale"} ->
         [generation |-> Usd(raw.spec_pricing.generation)]
    [] modelType = "embedding" ->
         [input |-> PerMillion(raw.spec_pricing.input),
          output |-> PerMillion(raw.spec_pricing.output)]
    [] modelType = "tts" -> [input |-> PerMillion(raw.spec_pricing.input)]
    [] modelType = "asr" ->
         [per_audio_second |-> Usd(raw.spec_pricing.per_audio_second)]

\* const base = extractBaseFields(raw); return { ...base, type: t, ... };
\* a video model has no pricing key.
NormalizeAs(modelType, raw) ==
  IF ExtractBaseFields(raw).kind = "threw" THEN ExtractBaseFields(raw)
  ELSE IF modelType = "video"
    THEN Returned([id |-> ExtractBaseFields(raw).value.id,
                   type |-> modelType,
                   is_favorite |-> ExtractBaseFields(raw).value.is_favorite])
  ELSE Returned([id |-> ExtractBaseFields(raw).value.id,
                 type |-> modelType,
                 is_favorite |-> ExtractBaseFields(raw).value.is_favorite,
                 pricing |-> Pricing(modelType, raw)])

normalizeTextModel(raw) == NormalizeAs("text", raw)

normalizeImageModel(raw) == NormalizeAs("image", raw)

normalizeVideoModel(raw) == NormalizeAs("video", raw)

normalizeInpaintModel(raw) == NormalizeAs("inpaint", raw)

normalizeEmbeddingModel(raw) == NormalizeAs("embedding", raw)

normalizeTtsModel(raw) == NormalizeAs("tts", raw)

normalizeAsrModel(raw) == NormalizeAs("asr", raw)

normalizeUpscaleModel(raw) == NormalizeAs("upscale", raw)

VALID_TYPES == {"text", "image", "video", "inpaint", "embedding", "tts", "asr", "upscale"}

\* (raw.id as string) ?? (raw.model_id as string) ?? ''
IdForInference(raw) ==
  IF ~IsNullish(raw.id) THEN raw.id
  ELSE IF ~IsNullish(raw.model_id) THEN raw.model_id
  ELSE <<>>

\* The three tiers of defaultModelNormalizer.
ResolveType(raw) ==
  IF raw.type \notin {"undefined", ""} /\ raw.type \in VALID_TYPES THEN raw.type
  ELSE IF InferTypeFromId(IdForInference(raw)) # "undefined"
       THEN InferTypeFromId(IdForInference(raw))
  ELSE "text"

\* The switch of defaultModelNormalizer.
Dispatch(modelType, raw) ==
  CASE modelType = "text" -> normalizeTextModel(raw)
    [] modelType = "image" -> normalizeImageModel(raw)
    [] modelType = "video" -> normalizeVideoModel(raw)
    [] modelType = "inpaint" -> normalizeInpaintModel(raw)
    [] modelType = "embedding" -> normalizeEmbeddingModel(raw)
    [] modelType = "tts" -> normalizeTtsModel(raw)
    [] modelType = "asr" -> normalizeAsrModel(raw)
    [] modelType = "upscale" -> normalizeUpscaleModel(raw)
    [] OTHER -> normalizeTextModel(raw)

defaultModelNormalizer(raw) == Dispatch(ResolveType(raw), raw)

\* The ids given to inferTypeFromId, and the raw records drawn.
InferredIds ==
  {<<>>,
   <<"g", "p", "t", "-", "4">>,
   <<"d", "a", "l", "l", "-", "e", "-", "3">>,
   <<"t", "t", "s", "-", "1">>,
   <<"t", "e", "x", "t", "-", "e", "m", "b", "e", "d", "d", "i", "n", "g", "-", "3">>,
   <<"w", "h", "i", "s", "p", "e", "r", "-", "1">>,
   <<"s", "o", "r", "a", "-", "v", "1">>,
   <<"w", "a", "n", "-", "2", ".", "1">>,
   <<"i", "n", "p", "a", "i", "n", "t">>,
   <<"e", "s", "r", "g", "a", "n", "-", "4", "x">>,
   <<"v", "i", "s", "i", "o", "n">>,
   <<"g", "p", "t", "-", "4", "-", "v", "i", "s", "i", "o", "n">>,
   <<"v", "i", "d", "e", "o", "-", "u", "p", "s", "c", "a", "l", "e">>,
   <<"f", "l", "u", "x", "-", "i", "n", "p", "a", "i", "n", "t">>,
   <<"s", "d", "x", "l", "-", "e", "m", "b", "e", "d">>,
   <<"m", "y", "_", "v", "i", "d", "e", "o">>,
   <<"V", "I", "D", "E", "O">>,
   <<"e", "m", "b", "e", "d", "d", "i", "n", "g", "s">>}

RawModels ==
  LET ids == {Undefined, JsNull, <<>>,
              <<"g", "p", "t", "-", "4">>,
              <<"d", "a", "l", "l", "-", "e", "-", "3">>,
              <<"t", "t", "s", "-", "1">>}
  IN {RawModel(id, model_id, rawType, is_favorite, model_spec) :
        id \in ids, model_id \in ids,
        rawType \in {"undefined", "", "banana", "video", "embedding"},
        is_favorite \in BOOLEAN, model_spec \in {"undefined", "object", "favorite"}}

\* Raw records with pricing.  In the first set each flat source is missing,
\* an empty object, an object with one key or with all its keys, and
\* model_spec.pricing is missing or has every entry; the amounts tell the
\* sources apart.  In the second set there is no flat source and the entries
\* of model_spec.pricing are missing, {}, { usd: null }, { usd: 0 } or
\* { usd: 6 }.
PricedRaws ==
  LET undefined == Js("undefined", <<>>, "", 0)
      number(v) == Js("number", <<>>, "finite", v)
      noSource == PricingSource("undefined", undefined, undefined, undefined, undefined)
      empty == PricingSource("object", undefined, undefined, undefined, undefined)
      entries == {PricingEntry("undefined", undefined),
                  PricingEntry("object", undefined),
                  PricingEntry("object", Js("null", <<>>, "", 0)),
                  PricingEntry("object", number(0)),
                  PricingEntry("object", number(6000000))}
      noSpec == SpecPricing("undefined", PricingEntry("undefined", undefined),
                            PricingEntry("undefined", undefined),
                            [is |-> "undefined", entries |-> <<>>])
      specs == {SpecPricing("object", first, second,
                            [is |-> "object",
                             entries |-> [key \in {"1K", "2K"} |->
                                            IF key = "1K" THEN first ELSE second]]) :
                  first \in entries, second \in entries}
      priced == RawModel(<<"g", "p", "t", "-", "4">>, Undefined, "undefined", FALSE, "object")
  IN {[priced EXCEPT !.pricing = pricing, !.metadata_pricing = metadata,
                     !.cost = cost, !.spec_pricing = spec] :
        pricing \in {noSource, empty,
                     PricingSource("object",
                                   Js("string", <<"0", ".", "0", "0", "0", "0", "0", "1">>, "", 0),
                                   undefined, undefined, undefined),
                     PricingSource("object", number(1), number(2), number(3), number(4))},
        metadata \in {noSource, empty,
                      PricingSource("object", number(11), undefined, undefined, undefined),
                      PricingSource("object", number(0), number(12), undefined, undefined)},
        cost \in {noSource, empty,
                  PricingSource("object", undefined, number(22), undefined, undefined),
                  PricingSource("object", number(21), number(22), undefined, undefined)},
        spec \in {noSpec,
                  SpecPricing("object", PricingEntry("object", number(6000000)),
                              PricingEntry("object", number(0)),
                              [is |-> "undefined", entries |-> <<>>])}}
       \cup {[priced EXCEPT !.spec_pricing = spec] : spec \in specs}

\* The values given to toNum.
ToNumInputs ==
  {Js("undefined", <<>>, "", 0), Js("null", <<>>, "", 0)}
    \cup {Js("number", <<>>, "finite", v) : v \in {0, 42000000, 0 - 5000000, 3140000}}
    \cup {Js("number", <<>>, num, 0) : num \in {"NaN", "Infinity", "-Infinity"}}
    \cup {Js("string", s, "", 0) :
            s \in {<<>>, <<" ">>, <<"4", "2">>, <<"-", "5">>, <<"3", ".", "1", "4">>,
                   <<"0">>, <<"a", "b", "c">>, <<"1", "2", "p", "x">>,
                   <<"I", "n", "f", "i", "n", "i", "t", "y">>}}

VariantNormalizers ==
  {"normalizeTextModel", "normalizeImageModel", "normalizeVideoModel",
   "normalizeInpaintModel", "normalizeEmbeddingModel", "normalizeTtsModel",
   "normalizeAsrModel", "normalizeUpscaleModel"}

\* A call about to be made: the function and its argument.
NormalizeInit ==
  /\ lifecycle = "init"
  /\ hasAbortSignalAny = TRUE
  /\ baseUrl = Undefined
  /\ models = <<>>
  /\ apiKey = "undefined"
  /\ queryParamsKey = "undefined"
  /\ type = "undefined"
  /\ allModels = <<>>
  /\ loading = FALSE
  /\ error = Null
  /\ requests = <<>>
  /\ stage = "start"
  /\ list = <<>>
  /\ SelectorDefaults
  /\ NoStore
  /\ NoPopover
  /\ NoTooltip
  /\ \/ fn = "inferTypeFromId" /\ arg \in InferredIds
     \/ fn = "defaultResponseExtractor" /\ arg \in Bodies
     \/ fn = "toNum" /\ arg \in ToNumInputs
     \/ fn \in VariantNormalizers \cup {"extractBaseFields", "defaultModelNormalizer"}
          /\ arg \in RawModels
     \/ fn \in VariantNormalizers /\ arg \in PricedRaws
  /\ out = [kind |-> "pending", value |-> <<>>]

\* The normalizers are functions of their argument: they write nothing.
NormalizeFrame ==
  /\ out.kind = "pending"
  /\ UNCHANGED <<lifecycle, hasAbortSignalAny, props, allModels, loading, error,
                 requests, selector, fn, arg, popover, tooltip>>

CallInferTypeFromId ==
  /\ fn = "inferTypeFromId"
  /\ out' = Returned(InferTypeFromId(arg))
  /\ NormalizeFrame

CallDefaultResponseExtractor ==
  /\ fn = "defaultResponseExtractor"
  /\ out' = Returned(Extractor(arg))
  /\ NormalizeFrame

CallToNum ==
  /\ fn = "toNum"
  /\ out' = Returned(toNum(arg))
  /\ NormalizeFrame

CallExtractBaseFields ==
  /\ fn = "extractBaseFields"
  /\ out' = ExtractBaseFields(arg)
  /\ NormalizeFrame

CallVariantNormalizer ==
  /\ fn \in VariantNormalizers
  /\ out' = CASE fn = "normalizeTextModel" -> normalizeTextModel(arg)
               [] fn = "normalizeImageModel" -> normalizeImageModel(arg)
               [] fn = "normalizeVideoModel" -> normalizeVideoModel(arg)
               [] fn = "normalizeInpaintModel" -> normalizeInpaintModel(arg)
               [] fn = "normalizeEmbeddingModel" -> normalizeEmbeddingModel(arg)
               [] fn = "normalizeTtsModel" -> normalizeTtsModel(arg)
               [] fn = "normalizeAsrModel" -> normalizeAsrModel(arg)
               [] fn = "normalizeUpscaleModel" -> normalizeUpscaleModel(arg)
  /\ NormalizeFrame

CallDefaultModelNormalizer ==
  /\ fn = "defaultModelNormalizer"
  /\ out' = defaultModelNormalizer(arg)
  /\ NormalizeFrame

NormalizeNext ==
  \/ CallInferTypeFromId
  \/ CallDefaultResponseExtractor
  \/ CallToNum
  \/ CallExtractBaseFields
  \/ CallVariantNormalizer
  \/ CallDefaultModelNormalizer

SpecNormalize == NormalizeInit /\ [][NormalizeNext]_vars

----------------------------------------------------------------------------
\* ModelTooltip: the trigger's handlers and the two timers.  Time is counted
\* in steps of 100 ms.

\* Bound of the model: the timers one tooltip sets.
MaxTimers == 4

\* setTimeout(callback, delay): the new timer's id is its place in timers.
SetTimeout(ts, kind, delay) ==
  Append(ts, [status |-> "pending", kind |-> kind, left |-> delay])

\* clearTimeout(id); id 0 is undefined.
ClearTimeout(ts, id) ==
  IF id \in 1..Len(ts) /\ ts[id].status = "pending"
    THEN [ts EXCEPT ![id].status = "cleared"]
  ELSE ts

\* A mounted tooltip that has set no timer yet.
TooltipInit ==
  /\ lifecycle = "mounted"
  /\ hasAbortSignalAny = TRUE
  /\ baseUrl = Undefined
  /\ models = <<>>
  /\ apiKey = "undefined"
  /\ queryParamsKey = "undefined"
  /\ type = "undefined"
  /\ allModels = <<>>
  /\ loading = FALSE
  /\ error = Null
  /\ requests = <<>>
  /\ stage = "start"
  /\ list = <<>>
  /\ SelectorDefaults
  /\ NoStore
  /\ NoCall
  /\ NoPopover
  /\ NoTooltip

TooltipFrame ==
  UNCHANGED <<hasAbortSignalAny, props, allModels, loading, error, requests,
              selector, call, popover>>

\* show, the handler of onPointerEnter and onFocus
Show ==
  /\ lifecycle = "mounted"
  /\ Len(timers) < MaxTimers
  /\ timers' = SetTimeout(ClearTimeout(timers, closeTimer), "open", 2)
  /\ openTimer' = Len(timers) + 1
  /\ UNCHANGED <<lifecycle, visible, closeTimer>>
  /\ TooltipFrame

\* hide, the handler of onPointerLeave and onBlur
Hide ==
  /\ lifecycle = "mounted"
  /\ Len(timers) < MaxTimers
  /\ timers' = SetTimeout(ClearTimeout(timers, openTimer), "close", 1)
  /\ closeTimer' = Len(timers) + 1
  /\ UNCHANGED <<lifecycle, visible, openTimer>>
  /\ TooltipFrame

\* handleKeyDown with the Escape key
HandleKeyDown ==
  /\ lifecycle = "mounted"
  /\ visible
  /\ timers' = ClearTimeout(timers, openTimer)
  /\ visible' = FALSE
  /\ UNCHANGED <<lifecycle, openTimer, closeTimer>>
  /\ TooltipFrame

\* handleScroll; the listener is on the document while visible is true.
HandleScroll ==
  /\ lifecycle = "mounted"
  /\ visible
  /\ timers' = ClearTimeout(timers, openTimer)
  /\ visible' = FALSE
  /\ UNCHANGED <<lifecycle, openTimer, closeTimer>>
  /\ TooltipFrame

\* The callback of the oldest timer that is due: setVisible(true) of an
\* open timer, setVisible(false) of a close timer.  After the unmount the
\* update is dropped.
TimerFires ==
  /\ \E id \in 1..Len(timers) :
       /\ timers[id].status = "pending" /\ timers[id].left = 0
       /\ \A other \in 1..(id - 1) :
            ~(timers[other].status = "pending" /\ timers[other].left = 0)
       /\ timers' = [timers EXCEPT ![id].status = "fired"]
       /\ visible' = IF lifecycle = "mounted" THEN timers[id].kind = "open" ELSE visible
  /\ UNCHANGED <<lifecycle, openTimer, closeTimer>>
  /\ TooltipFrame

\* 100 ms pass; a timer that is due has fired first.
TimePasses ==
  /\ \E id \in 1..Len(timers) : timers[id].status = "pending"
  /\ \A id \in 1..Len(timers) : timers[id].status = "pending" => timers[id].left > 0
  /\ timers' = [id \in 1..Len(timers) |->
                  IF timers[id].status = "pending"
                    THEN [timers[id] EXCEPT !.left = @ - 1]
                  ELSE timers[id]]
  /\ UNCHANGED <<lifecycle, visible, openTimer, closeTimer>>
  /\ TooltipFrame

\* The cleanup of the unmount effect.
UnmountTooltip ==
  /\ lifecycle = "mounted"
  /\ lifecycle' = "unmounted"
  /\ timers' = ClearTimeout(ClearTimeout(timers, openTimer), closeTimer)
  /\ UNCHANGED <<visible, openTimer, closeTimer>>
  /\ TooltipFrame

TooltipNext ==
  \/ Show
  \/ Hide
  \/ HandleKeyDown
  \/ HandleScroll
  \/ TimerFires
  \/ TimePasses
  \/ UnmountTooltip

SpecTooltip == TooltipInit /\ [][TooltipNext]_vars


----------------------------------------------------------------------------
\* Claims about useModels

\* The hook's state as its caller sees it.
Exposed == <<allModels, loading, error>>

\* The request i runs a continuation of fetchModels in this step.
Continues(i) == i \in 1..Len(requests) /\ requests'[i].pc # requests[i].pc

\* C1: last request wins.  A continuation of a request whose effect run
\* was cleaned up (the parameters changed, or the hook unmounted, while it
\* was in flight) changes none of allModels, loading and error, whether it
\* ends in success or in failure; a continuation that does change one of
\* them belongs to the most recent request, and that request is live.
C1_StaleRequestNeverWrites ==
  [][\A i \in 1..Len(requests) :
       Continues(i) =>
         /\ ~requests[i].isMounted => Exposed' = Exposed
         /\ Exposed' # Exposed => i = Len(requests) /\ requests[i].isMounted]_vars

\* A superseded request has run to its end, the request that replaced it
\* has delivered its models, and those models are the ones shown.
C1_Witness ==
  /\ Len(requests) = 2
  /\ requests[1].pc = "stale"
  /\ requests[2].pc = "models"
  /\ requests[2].isMounted
  /\ allModels # <<>>
  /\ ~loading
  /\ error = Null

\* The requests that are awaiting fetchFn or response.json().
Pending(i) == requests[i].pc \in {"fetch", "json"}

\* C2: at the 10 s deadline the hook settles to the same allModels, loading
\* and error whether the deadline is AbortSignal.any with
\* AbortSignal.timeout or the fallback timer.  Stated for the fallback:
\* once its timer has fired on the current request, the state the hook
\* settles to when fetch rejects with the abort reason is the state the
\* AbortSignal.any implementation settles to for the same request.
C2_DeadlineSettlesAlikeEitherWay ==
  \A i \in 1..Len(requests) :
    (~hasAbortSignalAny /\ requests[i].isMounted /\ requests[i].aborted /\ Pending(i)) =>
      AfterCatch(HookState, requests[i], DeadlineReason(FALSE))
        = AfterCatch(HookState, AfterDeadline([requests[i] EXCEPT !.aborted = FALSE], TRUE),
                     DeadlineReason(TRUE))

\* The characters of s up to position n, in lower case.
LowerPrefix(s, n) == [k \in 1..n |-> Lower(s[k])]

\* url starts with "http://" or "https://", compared without case.
StartsWithHttpScheme(url) ==
  \/ Len(url) >= 7 /\ LowerPrefix(url, 7) = <<"h", "t", "t", "p", ":", "/", "/">>
  \/ Len(url) >= 8 /\ LowerPrefix(url, 8) = <<"h", "t", "t", "p", "s", ":", "/", "/">>

\* The hook has settled to the invalid-scheme error.
SettledInvalidScheme ==
  /\ allModels = <<>>
  /\ ~loading
  /\ error.isError
  /\ error.message = <<"Invalid baseUrl scheme: URL must start with http:// or https://">>

\* No call of the fetch function was made with a baseUrl outside http(s).
FetchOnlyHttp == \A i \in 1..Len(requests) : StartsWithHttpScheme(requests[i].url)

RawRecords(body) == SelectSeq(Extractor(body), LAMBDA item : item.kind = "object")

\* The record normalizes successfully: the normalizer returns a model that
\* carries an id.
NormalizesOk(raw) == raw.out = "model" /\ raw.id # ""

Count(seq, P(_)) == Cardinality({k \in 1..Len(seq) : P(seq[k])})

\* The successfully normalized models of body, in the order of the records.
SuccessfullyNormalized(body) ==
  LET good == SelectSeq(RawRecords(body), NormalizesOk) IN
  [k \in 1..Len(good) |-> Model(good[k].id, good[k].name, good[k].type)]

\* C4: per-record isolation.  When the current request's response parses
\* to an object or a list, the hook settles with error = null and
\* allModels equal to the successfully normalized models of the records in
\* their order, n - k of them when k of the n records throw and the others
\* normalize; a record that throws does not abort the batch.
C4_ThrowingRecordIsSkipped ==
  [][\A i \in 1..Len(requests) :
       (requests[i].isMounted /\ requests[i].pc = "json" /\ requests'[i].pc # "json") =>
         \A body \in Bodies :
           (body.kind \in {"array", "object"} /\ JsonResolves(i, body)) =>
             /\ requests'[i].pc = "models"
             /\ error' = Null
             /\ ~loading'
             /\ allModels' = SuccessfullyNormalized(body)
             /\ (\A k \in 1..Len(RawRecords(body)) :
                   RawRecords(body)[k].out = "throw" \/ NormalizesOk(RawRecords(body)[k]))
                  => Len(allModels') = Len(RawRecords(body))
                                         - Count(RawRecords(body), LAMBDA raw : raw.out = "throw")]_vars

\* The current request got three records of which the second throws, and
\* the hook shows the other two in their order.
C4_Witness ==
  /\ Len(requests) >= 1
  /\ requests[Len(requests)].isMounted
  /\ requests[Len(requests)].pc = "models"
  /\ allModels = <<Model("gpt-4", "GPT-4", "text"), Model("dall-e-3", "DALL-E 3", "image")>>
  /\ error = Null
  /\ ~loading

\* C5: whenever the hook's baseUrl is absent (undefined, or the empty
\* string), at mount or after it is removed, the hook is settled at
\* allModels = [], loading = false, error = null; no request is live, and
\* no request was ever started for an absent baseUrl.
C5_AbsentBaseUrlSettlesEmpty ==
  /\ \A i \in 1..Len(requests) : requests[i].url \notin {Undefined, UrlEmpty}
  /\ (lifecycle # "init" /\ effectiveBaseUrl \in {Undefined, UrlEmpty}) =>
       /\ allModels = <<>>
       /\ ~loading
       /\ error = Null
       /\ \A i \in 1..Len(requests) : ~requests[i].isMounted /\ requests[i].aborted

\* The baseUrl prop was removed while a request was in flight, and that
\* request has run to its end since.
C5_Witness ==
  /\ lifecycle = "mounted"
  /\ baseUrl = Undefined
  /\ models = <<>>
  /\ Len(requests) = 1
  /\ requests[1].pc = "stale"
  /\ allModels = <<>> /\ ~loading /\ error = Null

\* C6: type is a pure post-filter.  A render that changes only type starts
\* and cancels no request and leaves allModels, loading and error as they
\* are; the models the hook returns are the fetched models whose type is
\* the type option, in fetched order, and all of them when type is unset.
C6_TypeIsPostFilter ==
  [][/\ (type' # type /\ <<baseUrl, models, apiKey, queryParamsKey, lifecycle>>'
                           = <<baseUrl, models, apiKey, queryParamsKey, lifecycle>>)
        => UNCHANGED <<allModels, loading, error, requests>>
     /\ fetchedModels' = IF type' = "undefined" THEN allModels'
                         ELSE SelectSeq(allModels', LAMBDA m : m.type = type')]_vars

\* With two fetched models of different types on show, the type option is
\* "image" and the hook returns the image model alone.
C6_Witness ==
  /\ type = "image"
  /\ Len(allModels) = 2
  /\ fetchedModels = <<Model("dall-e-3", "DALL-E 3", "image")>>
  /\ ~loading
  /\ error = Null

\* C7: when the fetch function rejects with e and the request is not
\* superseded, the hook settles with allModels = [], loading = false and
\* error = e itself.  Stated for the values e that are Error instances;
\* for any other value the hook stores new Error(String(e)).
C7_FetchRejectionIsTheError ==
  [][\A i \in 1..Len(requests), e \in RejectionValues :
       (FetchRejects(i, e) /\ requests[i].isMounted /\ e.isError) =>
         /\ allModels' = <<>>
         /\ ~loading'
         /\ error' = e]_vars

\* C8: when the response of the current request has a status s that is
\* not ok, the hook settles with allModels = [], loading = false and an
\* Error whose message holds s; nothing is normalized.
C8_HttpStatusIsTheError ==
  [][\A i \in 1..Len(requests), s \in Statuses :
       (FetchResolves(i, s) /\ requests[i].isMounted /\ s \notin 200..299) =>
         /\ allModels' = <<>>
         /\ ~loading'
         /\ error'.isError
         /\ \E k \in 1..Len(error'.message) : error'.message[k] = ToString(s)]_vars

----------------------------------------------------------------------------
\* Claims about ModelSelector

\* The ids of the models of a list.
Ids(ms) == {ms[k].id : k \in 1..Len(ms)}

\* C9: whenever the models prop is not empty the internal fetch is off: a
\* render with models given starts no request, whatever baseUrl is; every
\* request started earlier is cancelled, and nothing fetched is in the
\* list on show, which holds the given models only.
C9_StaticModelsDisableFetch ==
  [][Len(models') > 0 =>
       /\ Len(requests') = Len(requests)
       /\ \A i \in 1..Len(requests') : ~requests'[i].isMounted /\ requests'[i].aborted
       /\ allModels' = <<>>
       /\ ~loading'
       /\ \A k \in 1..Len(MergeModels(fetchedModels', models')) :
             \E j \in 1..Len(models') : MergeModels(fetchedModels', models')[k] = models'[j]]_vars

\* models was given while a request to an http(s) baseUrl was in flight;
\* the request has run to its end since, and baseUrl is still set.
C9_Witness ==
  /\ lifecycle = "mounted"
  /\ Len(models) > 0
  /\ baseUrl = UrlHttps
  /\ Len(requests) = 1
  /\ requests[1].pc = "stale"
  /\ allModels = <<>>

\* C10: merge stage.  The merged list holds one entry for each id that
\* occurs in the fetched or in the static models and no other entry; the
\* entry of an id that occurs in the static models is a static model, the
\* last one given with that id, and every other entry is a fetched model.
C10_MergeOneEntryPerIdStaticWins ==
  stage = "merged" =>
    /\ \A i, j \in 1..Len(list) : list[i].id = list[j].id => i = j
    /\ Ids(list) = Ids(fetchedModels) \cup Ids(models)
    /\ \A i \in 1..Len(list) :
         IF list[i].id \in Ids(models)
         THEN \E k \in 1..Len(models) :
                /\ models[k] = list[i]
                /\ \A j \in (k + 1)..Len(models) : models[j].id # list[i].id
         ELSE \E k \in 1..Len(fetchedModels) : fetchedModels[k] = list[i]

\* The merge has run on a fetched and a static list that share an id with
\* different records, next to ids that only one of the lists has.
C10_Witness ==
  /\ stage = "merged"
  /\ \E i \in 1..Len(fetchedModels), j \in 1..Len(models) :
       fetchedModels[i].id = models[j].id /\ fetchedModels[i] # models[j]
  /\ Ids(fetchedModels) \ Ids(models) # {}
  /\ Ids(models) \ Ids(fetchedModels) # {}

\* The deprecation date of m is a date strictly before now.
StrictlyPast(m) ==
  m.deprecation.present /\ m.deprecation.valid /\ m.deprecation.time < now

\* The positions of xs whose entries are, or are not, strictly past.
Segment(xs, past) == SelectSeq(xs, LAMBDA m : StrictlyPast(m) = past)

\* C11: deprecation partition.  For both sort orders the partition turns
\* the sorted list into a leading segment, which holds no entry whose
\* deprecation date is strictly before now, followed by a trailing segment
\* of entries that all have such a date; entries with no deprecation, a
\* future date or a date equal to now are in the leading segment; and the
\* two segments are the entries of the sorted list in their sorted order.
C11_PartitionMovesStrictlyPastToTheEnd ==
  [][(stage = "sorted" /\ stage' = "partitioned") =>
       \E k \in 0..Len(list') :
         /\ \A i \in 1..k : ~StrictlyPast(list'[i])
         /\ \A i \in (k + 1)..Len(list') : StrictlyPast(list'[i])
         /\ SubSeq(list', 1, k) = Segment(list, FALSE)
         /\ SubSeq(list', k + 1, Len(list')) = Segment(list, TRUE)
         /\ \A i \in 1..Len(list') :
              (\/ ~list'[i].deprecation.present
               \/ list'[i].deprecation \in {FutureDate, DateOfNow}) => i <= k]_vars

\* The partition has moved an entry with a date strictly before now, which
\* the sort had put first, behind an entry whose date is equal to now.
C11_Witness ==
  /\ stage = "partitioned"
  /\ \E i, j \in 1..Len(list) :
       /\ i < j
       /\ list[i].deprecation = DateOfNow
       /\ StrictlyPast(list[j])
       /\ Comparator(sortOrder, list[j], list[i]) < 0

\* The merged entries, before the overlay.
Merged == MergeModels(fetchedModels, models)

\* m has no deprecation, or a deprecation date at or after now.
KeptByFilter(m) ==
  ~m.deprecation.present \/ (m.deprecation.valid /\ m.deprecation.time >= now)

C13_UnparseableDateIsNotDeprecated ==
  stage = "partitioned" =>
    \A k \in 1..Len(Merged) :
      (Merged[k].deprecation.present /\ ~Merged[k].deprecation.valid) =>
        \E i \in 1..Len(list) :
          /\ list[i].id = Merged[k].id
          /\ \A j \in 1..(i - 1) : ~StrictlyPast(list[j])

\* The sort key by name: the name, or the id for an empty name, in lower case.
LowerCaseKey(m) ==
  LET key == IF Len(m.name) = 0 THEN m.id ELSE m.name
  IN [i \in 1..Len(key) |-> ToLowerCase(key[i])]

\* s is at or before t in the order of the dictionary.
RECURSIVE AtOrBefore(_, _)
AtOrBefore(s, t) ==
  IF Len(s) = 0 THEN TRUE
  ELSE IF Len(t) = 0 THEN FALSE
  ELSE IF s[1] # t[1] THEN LetterRank(s[1]) < LetterRank(t[1])
  ELSE AtOrBefore(Tail(s), Tail(t))

\* C14: sort stage.  In the sorted list, and in the derived list between
\* two entries of one segment, the earlier entry has a created that is not
\* less than the later one's when sortOrder is 'created'; otherwise its
\* name, or its id when the name is empty, is at or before the later
\* one's when case is ignored.
C14_SegmentsAreSorted ==
  stage \in {"sorted", "partitioned"} =>
    \A i, j \in 1..Len(list) :
      (i < j /\ (stage = "sorted" \/ StrictlyPast(list[i]) = StrictlyPast(list[j]))) =>
        IF sortOrder = "created"
        THEN list[i].created >= list[j].created
        ELSE AtOrBefore(LowerCaseKey(list[i]), LowerCaseKey(list[j]))

\* The derived list is in name order and holds, in one segment, an entry
\* named in lower case, an entry without a name and an entry named in upper
\* case, which the inputs gave in another order.
C14_Witness ==
  /\ stage = "partitioned"
  /\ sortOrder = "name"
  /\ \E i, j, k \in 1..Len(list) :
       /\ i < j /\ j < k
       /\ ~StrictlyPast(list[i]) /\ ~StrictlyPast(list[j]) /\ ~StrictlyPast(list[k])
       /\ list[i].name = <<"a", "b">>
       /\ list[j].name = <<>>
       /\ list[k].name = <<"B">>
  /\ models[1].name = <<"B">>

\* id is one of the local favorites.
IsLocalFavorite(id) == \E f \in 1..Len(localFavorites) : localFavorites[f] = id

\* C15: favorite overlay.  The overlay leaves the entries of the merged
\* list in place.  With no onToggleFavorite handler, an entry whose id is a
\* local favorite comes out with is_favorite true and all its other fields
\* as they were, and every other entry comes out as it was; with a handler
\* every entry comes out as it was.  The models given to the component and
\* the fetched models are not changed.
C15_OverlayCopiesLocalFavorites ==
  [][(stage = "merged" /\ stage' = "overlaid") =>
       /\ Len(list') = Len(list)
       /\ \A k \in 1..Len(list) :
            IF ~onToggleFavorite /\ IsLocalFavorite(list[k].id)
            THEN /\ list'[k].is_favorite
                 /\ list'[k] = [list[k] EXCEPT !.is_favorite = TRUE]
            ELSE list'[k] = list[k]
       /\ models' = models
       /\ allModels' = allModels]_vars

\* The overlay has run with no handler on a list in which a local
\* favorite was not marked, next to an entry that is no local favorite.
C15_Witness ==
  /\ stage = "overlaid"
  /\ ~onToggleFavorite
  /\ \E i \in 1..Len(list) :
       /\ list[i].id = <<"d">>
       /\ list[i].is_favorite
       /\ \E k \in 1..Len(models) : models[k].id = <<"d">> /\ ~models[k].is_favorite
  /\ \E i \in 1..Len(list) : ~IsLocalFavorite(list[i].id) /\ ~list[i].is_favorite

\* C16: favorite toggle.  With no handler, a toggle of an id that is among
\* the local favorites removes it from them, and a toggle of any other id
\* appends it; the new list is then what is stored, unless the write
\* throws, and then the stored item stays, the local favorites are the new
\* list all the same, and the call returns.  With a handler, a toggle
\* calls the handler with the id and changes neither the local favorites
\* nor the stored item.
C16_ToggleUpdatesFavoritesAndStorage ==
  [][(lifecycle = "mounted" /\ fn' = "handleToggleFavorite") =>
       \A modelId \in FavoriteIds, writeThrows \in BOOLEAN :
         HandleToggleFavorite(modelId, writeThrows) =>
           /\ out' = "returned"
           /\ error' = error
           /\ IF onToggleFavorite
              THEN /\ handlerCalls' = Append(handlerCalls, modelId)
                   /\ localFavorites' = localFavorites
                   /\ storage' = storage
              ELSE /\ handlerCalls' = handlerCalls
                   /\ IF \E i \in 1..Len(localFavorites) : localFavorites[i] = modelId
                      THEN /\ \A i \in 1..Len(localFavorites') : localFavorites'[i] # modelId
                           /\ localFavorites' = SelectSeq(localFavorites, LAMBDA id : id # modelId)
                      ELSE localFavorites' = localFavorites \o <<modelId>>
                   /\ storage' = IF writeThrows THEN storage
                                 ELSE [kind |-> "favorites", favorites |-> localFavorites']]_vars

\* A toggle with no handler has returned after a write that threw: nothing
\* is stored and the id is a local favorite; before that, a handler was
\* given and called.
C16_Witness ==
  /\ lifecycle = "mounted"
  /\ fn = "handleToggleFavorite"
  /\ out = "returned"
  /\ ~onToggleFavorite
  /\ storage = NoItem
  /\ localFavorites = <<arg>>
  /\ Len(handlerCalls) > 0

\* The type that the claim gives a record: the explicit type when it is
\* one of the 8 tags, else the type inferred from the id of the model, else
\* 'text'.
ResolvedType(rawType, id) ==
  IF rawType \in {"text", "image", "video", "inpaint", "embedding", "tts", "asr", "upscale"}
  THEN rawType
  ELSE IF InferTypeFromId(id) # "undefined" THEN InferTypeFromId(id)
  ELSE "text"

\* C17: type resolution of defaultModelNormalizer.  The model returned has
\* the explicit raw.type when that is one of the 8 tags, else the type
\* inferred from its identifier, else 'text'; and a record with a raw.type
\* outside the 8 tags comes to what the same record without type comes to.
C17_TypeIsExplicitElseInferredElseText ==
  (fn = "defaultModelNormalizer" /\ out.kind = "returned") =>
    /\ out.value.type = ResolvedType(arg.type, out.value.id)
    /\ arg.type \notin VALID_TYPES =>
         out = defaultModelNormalizer([arg EXCEPT !.type = "undefined"])

\* The functions that take a raw record and return a model.
NormalizerNames == VariantNormalizers \cup {"extractBaseFields", "defaultModelNormalizer"}

\* C18: is_favorite of a normalized model.  The base extraction, each of
\* the 8 normalizers and defaultModelNormalizer return, for a raw record
\* with an identifier, a model whose is_favorite is false, whether or not
\* the record or its model_spec has is_favorite.
C18_NormalizedIsNeverFavorite ==
  (fn \in NormalizerNames /\ out.kind = "returned") => out.value.is_favorite = FALSE

\* A normalizer has returned the model of a record that has is_favorite
\* set at the top level and under model_spec.
C18_Witness ==
  /\ fn = "normalizeImageModel"
  /\ out.kind = "returned"
  /\ arg.is_favorite
  /\ arg.model_spec = "favorite"
  /\ out.value.id = arg.model_id

\* v is no usable identifier: absent, null or the empty string.
NotUsable(v) == v = Undefined \/ v = JsNull \/ Len(v) = 0

\* C19: missing identifier.  For a raw record with neither a usable id nor
\* a usable model_id, the base extraction, each of the 8 normalizers and
\* defaultModelNormalizer throw the error 'Model missing required id
\* field' and return no model; for every other record they return one.
C19_MissingIdThrows ==
  (fn \in NormalizerNames /\ out.kind # "pending") =>
    IF NotUsable(arg.id) /\ NotUsable(arg.model_id)
    THEN out.kind = "threw" /\ out.value = "Model missing required id field"
    ELSE out.kind = "returned"

\* defaultModelNormalizer has thrown on a record with an empty id, a null
\* model_id and a valid type.
C19_Witness ==
  /\ fn = "defaultModelNormalizer"
  /\ out.kind = "threw"
  /\ arg.id = <<>>
  /\ arg.model_id = JsNull
  /\ arg.type = "video"

\* The pattern of rule i matches the id.
RuleMatches(i, id) == PatternTest(MODEL_ID_TYPE_PATTERNS[i].words, id)

\* Ids whose type the tests of the repository give.
TestedIds ==
  {<<(<<"d", "a", "l", "l", "-", "e", "-", "3">>), "image">>,
   <<(<<"t", "t", "s", "-", "1">>), "tts">>,
   <<(<<"w", "h", "i", "s", "p", "e", "r", "-", "1">>), "asr">>,
   <<(<<"s", "o", "r", "a", "-", "v", "1">>), "video">>,
   <<(<<"e", "s", "r", "g", "a", "n", "-", "4", "x">>), "upscale">>,
   <<(<<"v", "i", "s", "i", "o", "n">>), "undefined">>,
   <<(<<"g", "p", "t", "-", "4", "-", "v", "i", "s", "i", "o", "n">>), "undefined">>}

\* C20: inferTypeFromId.  The rules are, in this order, those of
\* embedding, image, tts, asr, video, inpaint and upscale; the function
\* returns the type of the first rule whose pattern matches the id, also
\* when later rules match, and undefined when none matches; the ids with
\* 'vision' do not come out as video, and the ids of the tests get the
\* types of the tests.
C20_FirstMatchingRuleDecides ==
  (fn = "inferTypeFromId" /\ out.kind = "returned") =>
    /\ [i \in 1..Len(MODEL_ID_TYPE_PATTERNS) |-> MODEL_ID_TYPE_PATTERNS[i].type]
         = <<"embedding", "image", "tts", "asr", "video", "inpaint", "upscale">>
    /\ \A i \in 1..Len(MODEL_ID_TYPE_PATTERNS) :
         (RuleMatches(i, arg) /\ \A j \in 1..(i - 1) : ~RuleMatches(j, arg)) =>
           out.value = MODEL_ID_TYPE_PATTERNS[i].type
    /\ (\A i \in 1..Len(MODEL_ID_TYPE_PATTERNS) : ~RuleMatches(i, arg)) =>
         out.value = "undefined"
    /\ \A t \in TestedIds : arg = t[1] => out.value = t[2]

\* inferTypeFromId has returned video for an id that the rule of video
\* and the later rule of upscale both match.
C20_Witness ==
  /\ fn = "inferTypeFromId"
  /\ out.kind = "returned"
  /\ RuleMatches(5, arg)
  /\ RuleMatches(7, arg)
  /\ out.value = "video"

\* C21: defaultResponseExtractor.  The call returns, never throws, and
\* what it returns is the body when the body is a list, else body.data
\* when that is a list, else body.models when that is a list, else the
\* empty list.
C21_ExtractorTakesFirstList ==
  (fn = "defaultResponseExtractor" /\ out.kind # "pending") =>
    /\ out.kind = "returned"
    /\ out.value =
         (CASE arg.kind = "array" -> arg.items
            [] arg.kind # "array" /\ arg.kind = "object" /\ arg.dataIsArray -> arg.data
            [] arg.kind # "array" /\ arg.kind = "object" /\ ~arg.dataIsArray
                 /\ arg.modelsIsArray -> arg.modelsList
            [] OTHER -> <<>>)

\* The extractor has returned body.data of a body that has a list under
\* data and another list under models.
C21_Witness ==
  /\ fn = "defaultResponseExtractor"
  /\ out.kind = "returned"
  /\ arg.kind = "object"
  /\ arg.dataIsArray /\ arg.modelsIsArray
  /\ arg.data # arg.modelsList
  /\ out.value = arg.data

\* C28: the identifier of the type inference.  When defaultModelNormalizer
\* returns a model whose id is raw.model_id, because raw.id is absent, null
\* or empty, and no explicit type among the 8 tags decides, the type of the
\* model is the type inferred from that model_id, or 'text' when none is
\* inferred.
C28_InferenceUsesTheIdOfTheModel ==
  (/\ fn = "defaultModelNormalizer"
   /\ out.kind = "returned"
   /\ (arg.id = Undefined \/ arg.id = JsNull \/ arg.id = <<>>)
   /\ arg.type \notin VALID_TYPES) =>
      /\ out.value.id = arg.model_id
      /\ out.value.type =
           (IF InferTypeFromId(arg.model_id) = "undefined" THEN "text"
            ELSE InferTypeFromId(arg.model_id))

\* C25: one request at a time.  Of the requests of a hook at most one is
\* both awaiting its response and not cancelled, and it is the last one
\* started: every request started before the last has had its effect run
\* cleaned up and its controller aborted, already in the state in which
\* the last one starts.
C25_AtMostOneLiveRequest ==
  /\ \A i, j \in 1..Len(requests) :
       (Pending(i) /\ requests[i].isMounted /\ Pending(j) /\ requests[j].isMounted) => i = j
  /\ \A i \in 1..(Len(requests) - 1) : ~requests[i].isMounted /\ requests[i].aborted

\* A change of the parameters has started a second request while the first
\* was awaiting its response: the first is cancelled, the second is live.
C25_Witness ==
  /\ Len(requests) = 2
  /\ Pending(1) /\ ~requests[1].isMounted /\ requests[1].aborted
  /\ Pending(2) /\ requests[2].isMounted /\ ~requests[2].aborted
  /\ requests[1].url # requests[2].url

\* C27: the error is exposed alone.  In every state of the hook, when
\* error is not null the models are empty and loading is false.
C27_ErrorOnlyWithNoModelsAndNotLoading ==
  error.isError => (allModels = <<>> /\ ~loading)

\* A request that followed a successful one has failed: the hook shows the
\* error of the second and none of the models of the first.
C27_Witness ==
  /\ Len(requests) = 2
  /\ requests[1].pc = "models"
  /\ requests[2].pc = "error"
  /\ error.isError
  /\ allModels = <<>>
  /\ ~loading

\* C22: toNum never throws; it returns undefined for null, undefined, the
\* empty string and every value that Number() does not turn into a finite
\* number, and the number itself otherwise.
C22_ToNumIsTheFiniteNumberOrUndefined ==
  (fn = "toNum" /\ out.kind # "pending") =>
    /\ out.kind = "returned"
    /\ out.value =
         IF \/ arg.t \in {"null", "undefined"}
            \/ arg.t = "string" /\ arg.s = <<>>
            \/ ToNumber(arg).num # "finite"
           THEN Js("undefined", <<>>, "", 0)
         ELSE ToNumber(arg)

\* A flat pricing object that holds at least one key.
HoldsPrices(source) ==
  /\ source.is = "object"
  /\ \E value \in {source.prompt, source.completion,
                   source.cache_input, source.cache_write} : value.t # "undefined"

\* The pricing of a text model when the first source that holds anything
\* gives every field.
FirstNonEmptyPricing(raw) ==
  LET undefined == Js("undefined", <<>>, "", 0)
      spec == raw.spec_pricing
  IN IF HoldsPrices(raw.pricing)
       THEN [prompt |-> toNum(raw.pricing.prompt),
             completion |-> toNum(raw.pricing.completion),
             cache_input |-> toNum(raw.pricing.cache_input),
             cache_write |-> toNum(raw.pricing.cache_write)]
     ELSE IF HoldsPrices(raw.metadata_pricing)
       THEN [prompt |-> toNum(raw.metadata_pricing.prompt),
             completion |-> toNum(raw.metadata_pricing.completion),
             cache_input |-> undefined, cache_write |-> undefined]
     ELSE IF HoldsPrices(raw.cost)
       THEN [prompt |-> toNum(raw.cost.prompt),
             completion |-> toNum(raw.cost.completion),
             cache_input |-> undefined, cache_write |-> undefined]
     ELSE IF /\ spec.is = "object"
             /\ \E entry \in {spec.input, spec.output,
                              spec.cache_input, spec.cache_write} : entry.is = "object"
       THEN [prompt |-> PerMillion(spec.input),
             completion |-> PerMillion(spec.output),
             cache_input |-> PerMillion(spec.cache_input),
             cache_write |-> PerMillion(spec.cache_write)]
     ELSE [prompt |-> undefined, completion |-> undefined,
           cache_input |-> undefined, cache_write |-> undefined]

\* C23: every pricing field of a text model comes from one source, the
\* first non-empty one of raw.pricing, raw.metadata.pricing, raw.cost and
\* model_spec.pricing; an empty earlier source does not keep a later
\* non-empty one from being used.
C23_FirstNonEmptySourceGivesEveryField ==
  (fn = "normalizeTextModel" /\ out.kind = "returned") =>
    out.value.pricing = FirstNonEmptyPricing(arg)

\* Each pricing field of a normalized model, with the values its source
\* locations hold in the raw record.
PricingFields(model, raw) ==
  LET spec == raw.spec_pricing
      field(value, sources) == [value |-> value, sources |-> sources]
      resolutions == model.pricing.resolutions
  IN CASE model.type = "text" ->
            {field(model.pricing.prompt,
                   {raw.pricing.prompt, raw.metadata_pricing.prompt,
                    raw.cost.prompt, Usd(spec.input)}),
             field(model.pricing.completion,
                   {raw.pricing.completion, raw.metadata_pricing.completion,
                    raw.cost.completion, Usd(spec.output)}),
             field(model.pricing.cache_input,
                   {raw.pricing.cache_input, Usd(spec.cache_input)}),
             field(model.pricing.cache_write,
                   {raw.pricing.cache_write, Usd(spec.cache_write)})}
       [] model.type = "image" ->
            {field(model.pricing.generation, {Usd(spec.generation)}),
             field(model.pricing.upscale_2x, {Usd(spec.upscale_2x)}),
             field(model.pricing.upscale_4x, {Usd(spec.upscale_4x)})}
              \cup {field(IF key \in DOMAIN resolutions.entries
                            THEN resolutions.entries[key]
                          ELSE Js("undefined", <<>>, "", 0),
                          {Usd(spec.resolutions.entries[key])}) :
                      key \in DOMAIN spec.resolutions.entries}
       [] model.type \in {"inpaint", "upscale"} ->
            {field(model.pricing.generation, {Usd(spec.generation)})}
       [] model.type = "embedding" ->
            {field(model.pricing.input, {Usd(spec.input)}),
             field(model.pricing.output, {Usd(spec.output)})}
       [] model.type = "tts" ->
            {field(model.pricing.input, {Usd(spec.input)})}
       [] model.type = "asr" ->
            {field(model.pricing.per_audio_second, {Usd(spec.per_audio_second)})}

\* C24: a pricing field is undefined when no source location holds a value
\* for it, and it is 0 only when a source location holds an explicit 0.
C24_PriceIsAbsentOrFromTheSource ==
  (/\ fn \in VariantNormalizers \ {"normalizeVideoModel"}
   /\ out.kind = "returned") =>
    \A field \in PricingFields(out.value, arg) :
      /\ (\A source \in field.sources : source.t = "undefined")
           => field.value.t = "undefined"
      /\ (field.value.t = "number" /\ field.value.num = "finite" /\ field.value.v = 0)
           => \E source \in field.sources :
                source.t = "number" /\ source.num = "finite" /\ source.v = 0

\* C26: when the last thing that happened on the trigger is a pointer-leave
\* or a blur and its 100 ms close delay has elapsed, the tooltip is hidden,
\* and it stays hidden for as long as no pointer-enter or focus follows.
C26_HiddenAfterTheLastLeave ==
  (/\ lifecycle = "mounted"
   /\ timers # <<>>
   /\ timers[Len(timers)].kind = "close"
   /\ timers[Len(timers)].status = "fired") => ~visible

\* The derived list of the render, and whether it marks a model favorite.
Derived ==
  DerivedList(fetchedModels, models, localFavorites, onToggleFavorite,
              showDeprecated, sortOrder, now)

MarkedFavorite(xs, id) == \E k \in 1..Len(xs) : xs[k].id = id /\ xs[k].is_favorite

\* C29: without an onToggleFavorite handler, toggling the favorite of a
\* model of the list flips whether the derived list marks it is_favorite,
\* also for a model the host supplied with is_favorite = true.
C29_ToggleFlipsTheDerivedFavorite ==
  [][(/\ lifecycle = "mounted"
      /\ ~onToggleFavorite /\ ~onToggleFavorite'
      /\ fn' = "handleToggleFavorite"
      /\ localFavorites' # localFavorites
      /\ \E k \in 1..Len(Derived) : Derived[k].id = arg')
       => MarkedFavorite(Derived', arg') # MarkedFavorite(Derived, arg')]_vars

\* C30: while the popover is shown, a ModelItem is marked past-deprecated
\* exactly when the derived list has its model in the trailing segment.
C30_ItemMarkAgreesWithTheSegment ==
  open =>
    \A mark \in marked :
      mark[2] = (\E k \in 1..Len(Derived) :
                   Derived[k].id = mark[1] /\ IsPastDeprecated(Derived[k], now))

====
